---- MODULE Spec2Model ----
(***************************************************************************)
(* NeXifyAI assistant: the in-memory task registry (task-manager.ts), the  *)
(* learning registry (learning-manager.ts), the remote conversation client *)
(* (client part of agent.ts) and the agent orchestrator (agent.ts).        *)
(*                                                                         *)
(* JavaScript objects are modelled with reference semantics: `heap` holds  *)
(* every Task object ever created, a handle is an index into it, and the   *)
(* registry Map, the parents' subtask arrays and session.tasks hold        *)
(* handles.  The Map keeps insertion order, so it is a sequence.           *)
(***************************************************************************)
EXTENDS Integers, Sequences, FiniteSets, TLC

VARIABLES
  heap,           \* every Task object allocated so far (handle = index)
  tasks,          \* task-manager.ts `tasks` Map: handles in insertion order, keyed by the object's id
  now,            \* Date.now()
  activeSession,  \* agent.ts `activeSession`: <<>> (null) or <<session record>>
  threads,        \* the remote service: threads[threadId] is the ordered message list
  learnings,      \* learning-manager.ts `learnings` Map values, in insertion order
  metrics,        \* learning-manager.ts `metrics`
  pc,             \* position of the running agent call
  call,           \* the running agent call and its locals
  run,            \* the remote run of the running call
  ret,            \* result of the last finished agent call
  ops,            \* update calls made on the registry so far
  calls,          \* agent calls started so far
  apiKey,         \* config.ts NEXIFYAI_CONFIG.apiKey: "" when no credential is configured
  vectorStoreId,  \* config.ts NEXIFYAI_CONFIG.vectorStoreId: "" when none is configured
  openaiClient,   \* agent.ts `openaiClient`: "null" or the cached client
  requests,       \* the requests the client functions have issued to the remote service
  procs           \* the overlapping calls in flight, each with its locals

vars == <<ops, calls, heap, tasks, now, activeSession, threads, learnings, metrics, pc, call,
          run, ret, apiKey, vectorStoreId, openaiClient, requests, procs>>

regVars == <<heap, tasks>>
clientVars == <<apiKey, vectorStoreId, openaiClient, requests>>
agentVars == <<pc, call, run, ret, calls, clientVars, procs>>

----------------------------------------------------------------------------
\* Bounds of the model

\* Task objects allocated in one behaviour
MaxTasks == 3
\* The clock runs over 0..MaxTime
MaxTime == 1
\* Distinct values of the random id suffix
MaxRand == 2
\* Update calls (updateTask, setTaskStatus, completeTask, tool-call batches) in one behaviour
MaxUpdates == 1
\* Entries of the learning registry
MaxLearnings == 2

----------------------------------------------------------------------------
\* Types (types.ts)

TaskStatus == {"pending", "in-progress", "completed", "failed", "cancelled"}

TaskPriority == {"low", "medium", "high", "critical"}

TaskCategory == {"development", "bugfix", "documentation", "refactoring", "security",
                 "performance", "feature", "maintenance", "research"}

\* JavaScript `undefined` in a string-valued field or argument
Undefined == "undefined"

\* an absent Date (completedAt?: Date)
NoDate == -1

\* a Date whose time value is NaN, as new Date(undefined) and new Date of a
\* text that names no date give
InvalidDate == -1000

\* the value null in a JSON text
JsonNull == -1001

\* an absent identifier (parentTaskId?: string)
NoId == <<>>

Min(a, b) == IF a < b THEN a ELSE b

Max(a, b) == IF a < b THEN b ELSE a

Range(s) == {s[i] : i \in 1..Len(s)}

----------------------------------------------------------------------------
\* Task registry (task-manager.ts).  A registry value R is
\* [heap |-> the Task objects, tasks |-> the Map as a sequence of handles].

\* `task_${Date.now().toString(36)}_${Math.random().toString(36).substring(2, 8)}`:
\* the identifier is the pair of its two variable parts.
generateTaskId(ts, rnd) == <<ts, rnd>>

\* the identifiers no createTask call can produce (the random part is never 0)
GhostId == <<0, 0>>

\* a lookup among all Task objects, whether the Map still holds them or not
MapGet_AnyObject(R, id) ==
  LET at == {h \in 1..Len(R.heap) : R.heap[h].id = id}
  IN IF at = {} THEN 0 ELSE CHOOSE h \in at : TRUE

\* Map.prototype.get: the handle stored under key id, 0 when there is none
MapGet(R, id) ==
  LET at == {i \in 1..Len(R.tasks) : R.heap[R.tasks[i]].id = id}
  IN IF at = {} THEN 0 ELSE R.tasks[CHOOSE i \in at : TRUE]

\* Map.prototype.set: an existing key keeps its place and gets the new value
MapSet(R, id, h) ==
  LET at == {i \in 1..Len(R.tasks) : R.heap[R.tasks[i]].id = id}
  IN IF at = {} THEN Append(R.tasks, h)
     ELSE [R.tasks EXCEPT ![CHOOSE i \in at : TRUE] = h]

\* the keys of the Map
TaskIds(R) == {R.heap[R.tasks[i]].id : i \in 1..Len(R.tasks)}

\* handle of the object createTask allocates next
NewHandle(R) == Len(R.heap) + 1

\* a createTask that builds the task but leaves out tasks.set(task.id, task)
createTask_NotStored(R, params, ts, rnd) ==
  LET task == [id |-> generateTaskId(ts, rnd),
               description |-> params.description,
               status |-> "pending",
               priority |-> IF params.priority = Undefined THEN "medium" ELSE params.priority,
               category |-> IF params.category = Undefined THEN "development" ELSE params.category,
               createdAt |-> ts,
               updatedAt |-> ts,
               completedAt |-> NoDate,
               parentTaskId |-> params.parentTaskId,
               subtasks |-> <<>>,
               dependencies |-> params.dependencies,
               result |-> <<>>]
  IN [heap |-> Append(R.heap, task), tasks |-> R.tasks]

\* createTask(params) at time ts with random id suffix rnd
createTask(R, params, ts, rnd) ==
  LET h == NewHandle(R)
      task == [id |-> generateTaskId(ts, rnd),
               description |-> params.description,
               status |-> "pending",
               priority |-> IF params.priority = Undefined THEN "medium" ELSE params.priority,
               category |-> IF params.category = Undefined THEN "development" ELSE params.category,
               createdAt |-> ts,
               updatedAt |-> ts,
               completedAt |-> NoDate,
               parentTaskId |-> params.parentTaskId,
               subtasks |-> <<>>,
               dependencies |-> params.dependencies,
               result |-> <<>>]
      R0 == [heap |-> Append(R.heap, task), tasks |-> R.tasks]
      R1 == [R0 EXCEPT !.tasks = MapSet(R0, task.id, h)]
      parent == IF params.parentTaskId = NoId THEN 0 ELSE MapGet(R1, params.parentTaskId)
  IN IF parent = 0 THEN R1
     ELSE [R1 EXCEPT !.heap[parent].subtasks = Append(@, h),
                     !.heap[parent].updatedAt = ts]

\* Object.assign(task, updates, { updatedAt: new Date() }): every own key of
\* `updates` is copied, also one whose value is undefined and one the task
\* does not have yet
ObjectAssign(task, updates, ts) ==
  [f \in DOMAIN task \cup DOMAIN updates \cup {"updatedAt"} |->
     IF f = "updatedAt" THEN ts
     ELSE IF f \in DOMAIN updates THEN updates[f]
     ELSE task[f]]

\* an update that leaves out the completedAt stamp
UpdatedTask_NoStamp(task, updates, ts) == ObjectAssign(task, updates, ts)

\* updateTask(taskId, updates); `updates` is a function from the keys present
UpdatedTask(task, updates, ts) ==
  LET assigned == ObjectAssign(task, updates, ts)
  IN IF "status" \in DOMAIN updates /\ updates["status"] = "completed"
     THEN [assigned EXCEPT !["completedAt"] = ts]
     ELSE assigned

updateTask(R, taskId, updates, ts) ==
  LET h == MapGet(R, taskId)
  IN IF h = 0 THEN R
     ELSE [R EXCEPT !.heap[h] = UpdatedTask(R.heap[h], updates, ts)]

\* setTaskStatus(taskId, status)
setTaskStatus(R, taskId, status, ts) ==
  updateTask(R, taskId, [f \in {"status"} |-> status], ts)

\* a completeTask that leaves out the completion stamp
CompletedTask_NoStamp(task, result, ts) ==
  [task EXCEPT !.status = IF result.success THEN "completed" ELSE "failed",
               !.result = <<result>>,
               !.updatedAt = ts]

\* completeTask(taskId, result)
CompletedTask(task, result, ts) ==
  [task EXCEPT !.status = IF result.success THEN "completed" ELSE "failed",
               !.completedAt = ts,
               !.result = <<result>>,
               !.updatedAt = ts]

completeTask(R, taskId, result, ts) ==
  LET h == MapGet(R, taskId)
  IN IF h = 0 THEN R
     ELSE [R EXCEPT !.heap[h] = CompletedTask(R.heap[h], result, ts)]

\* priorityOrder of listTasks
priorityOrder(p) ==
  CASE p = "critical" -> 0
    [] p = "high" -> 1
    [] p = "medium" -> 2
    [] p = "low" -> 3

\* The comparator of listTasks as Array.prototype.sort uses it: a priority
\* outside priorityOrder makes the difference NaN, getTime() of an invalid
\* Date is NaN and so is the difference of the creation times then, and sort
\* takes NaN as 0.  The createdAt of a task of the Map is a Date object:
\* createTask and importTasks both assign one.
Compare(R, a, b) ==
  LET pa == R.heap[a].priority
      pb == R.heap[b].priority
      ta == R.heap[a].createdAt
      tb == R.heap[b].createdAt
  IN IF pa \notin TaskPriority \/ pb \notin TaskPriority THEN 0
     ELSE IF priorityOrder(pa) - priorityOrder(pb) # 0
          THEN priorityOrder(pa) - priorityOrder(pb)
          ELSE IF ta = InvalidDate \/ tb = InvalidDate THEN 0
          ELSE tb - ta

Reverse(s) == [i \in 1..Len(s) |-> s[Len(s) + 1 - i]]

\* Array.prototype.sort of a short array (fewer than 64 elements): the leading
\* run is counted, reversed when it is strictly descending, and the remaining
\* elements are placed by binary insertion.
RECURSIVE RunLength(_, _, _, _)
RunLength(R, s, descending, idx) ==
  IF idx > Len(s) THEN Len(s)
  ELSE LET order == Compare(R, s[idx], s[idx - 1])
       IN IF (descending /\ order >= 0) \/ (~descending /\ order < 0)
          THEN idx - 1
          ELSE RunLength(R, s, descending, idx + 1)

RECURSIVE BinarySearch(_, _, _, _, _)
BinarySearch(R, s, pivot, left, right) ==
  IF left >= right THEN left
  ELSE LET mid == left + ((right - left) \div 2)
       IN IF Compare(R, pivot, s[mid + 1]) < 0
          THEN BinarySearch(R, s, pivot, left, mid)
          ELSE BinarySearch(R, s, pivot, mid + 1, right)

RECURSIVE BinaryInsertionSort(_, _, _)
BinaryInsertionSort(R, s, start) ==
  IF start >= Len(s) THEN s
  ELSE LET pivot == s[start + 1]
           left == BinarySearch(R, s, pivot, 0, start)
           placed == SubSeq(s, 1, left) \o <<pivot>> \o SubSeq(s, left + 1, start)
                     \o SubSeq(s, start + 2, Len(s))
       IN BinaryInsertionSort(R, placed, start + 1)

SortTasks(R, s) ==
  IF Len(s) < 2 THEN s
  ELSE LET descending == Compare(R, s[2], s[1]) < 0
           n == RunLength(R, s, descending, 3)
           made == IF descending
                   THEN Reverse(SubSeq(s, 1, n)) \o SubSeq(s, n + 1, Len(s))
                   ELSE s
       IN BinaryInsertionSort(R, made, n)

\* filters.limit is <<>> when no result-count cap is passed (undefined) and
\* <<n>> for the cap n
NoLimit == <<>>

\* Array.prototype.slice(0, n)
Slice0(s, n) ==
  IF n >= 0 THEN SubSeq(s, 1, Min(n, Len(s)))
  ELSE SubSeq(s, 1, Max(Len(s) + n, 0))

\* the filters object of a listTasks() call without argument
NoFilters == [status |-> Undefined, category |-> Undefined, priority |-> Undefined,
              limit |-> NoLimit]

\* a listTasks that leaves out the status filter and the priority filter
listTasks_Unfiltered(R, filters) ==
  LET topLevel(h) == R.heap[h].parentTaskId = NoId
      byCategory(h) == R.heap[h].category = filters.category
      r0 == SelectSeq(R.tasks, topLevel)
      r2 == IF filters.category # Undefined THEN SelectSeq(r0, byCategory) ELSE r0
      sorted == SortTasks(R, r2)
  IN IF filters.limit # NoLimit /\ filters.limit[1] # 0
     THEN Slice0(sorted, filters.limit[1])
     ELSE sorted

\* listTasks(filters): the handles of the listed tasks, in order
listTasks(R, filters) ==
  LET topLevel(h) == R.heap[h].parentTaskId = NoId
      byStatus(h) == R.heap[h].status = filters.status
      byCategory(h) == R.heap[h].category = filters.category
      byPriority(h) == R.heap[h].priority = filters.priority
      r0 == SelectSeq(R.tasks, topLevel)
      r1 == IF filters.status # Undefined /\ filters.status # "all"
            THEN SelectSeq(r0, byStatus) ELSE r0
      r2 == IF filters.category # Undefined THEN SelectSeq(r1, byCategory) ELSE r1
      r3 == IF filters.priority # Undefined THEN SelectSeq(r2, byPriority) ELSE r2
      sorted == SortTasks(R, r3)
  IN IF filters.limit # NoLimit /\ filters.limit[1] # 0
     THEN Slice0(sorted, filters.limit[1])
     ELSE sorted

\* allTasks.filter((t) => t.status === s).length
CountStatus(R, s) == Cardinality({i \in 1..Len(R.tasks) : R.heap[R.tasks[i]].status = s})

\* getTaskStats()
getTaskStats(R) ==
  [total |-> Len(R.tasks),
   pending |-> CountStatus(R, "pending"),
   inProgress |-> CountStatus(R, "in-progress"),
   completed |-> CountStatus(R, "completed"),
   failed |-> CountStatus(R, "failed")]

\* Map.prototype.delete: the entry stored under key id is removed
MapDelete(R, id) ==
  LET keeps(h) == R.heap[h].id # id
  IN SelectSeq(R.tasks, keeps)

\* the for loop of deleteTask: tasks.delete(subtask.id) for each subtask
RECURSIVE DeleteSubtasks(_, _)
DeleteSubtasks(R, subtasks) ==
  IF subtasks = <<>> THEN R
  ELSE DeleteSubtasks([R EXCEPT !.tasks = MapDelete(R, R.heap[Head(subtasks)].id)],
                      Tail(subtasks))

\* deleteTask(taskId): the registry afterwards and the boolean returned, which
\* is what the final tasks.delete(taskId) returns
deleteTask(R, taskId) ==
  LET h == MapGet(R, taskId)
      R1 == DeleteSubtasks(R, R.heap[h].subtasks)
  IN IF h = 0 THEN [R |-> R, result |-> FALSE]
     ELSE [R |-> [R1 EXCEPT !.tasks = MapDelete(R1, taskId)],
           result |-> taskId \in TaskIds(R1)]

----------------------------------------------------------------------------
\* JSON transfer of the task registry (exportTasks, importTasks).  A Date is
\* its time value t >= 0 (time 0 is the epoch) and an absent date is NoDate;
\* the ISO text that JSON.stringify writes for the Date t is the number
\* -(t + 2), so a date field tells whether it holds a Date or a text.

\* Date.prototype.toISOString
toISOString(t) == -(t + 2)

\* a date field holds a Date object, valid or not
IsDate(v) == v >= 0 \/ v = InvalidDate

\* what JSON.stringify writes for a date field: Date.prototype.toJSON gives
\* the ISO text of a Date and null for an invalid Date; a text is written as
\* it is, nothing for an absent field
DateToJSON(v) ==
  IF v = InvalidDate THEN JsonNull
  ELSE IF IsDate(v) THEN toISOString(v)
  ELSE v

\* new Date(value): a Date gives a Date of the same time value, null the
\* epoch, undefined an invalid Date, an ISO text the Date it names
NewDate(v) ==
  IF IsDate(v) THEN v
  ELSE IF v = JsonNull THEN 0
  ELSE IF v = NoDate THEN InvalidDate
  ELSE -v - 2

\* the objects reachable from `frontier` through subtask lists
RECURSIVE Reach(_, _, _)
Reach(R, frontier, seen) ==
  IF frontier \subseteq seen THEN seen
  ELSE Reach(R, UNION {Range(R.heap[h].subtasks) : h \in frontier}, seen \cup frontier)

\* JSON.stringify meets an object inside its own subtasks (it throws TypeError)
Circular(R) ==
  \E h \in Reach(R, Range(R.tasks), {}) : h \in Reach(R, Range(R.heap[h].subtasks), {})

\* JSON.stringify of one Task: its fields with the dates as ISO text and the
\* subtasks nested in full
RECURSIVE Stringify(_, _)
Stringify(R, h) ==
  LET task == R.heap[h]
  IN [task EXCEPT !.createdAt = DateToJSON(task.createdAt),
                  !.updatedAt = DateToJSON(task.updatedAt),
                  !.completedAt = DateToJSON(task.completedAt),
                  !.subtasks = [i \in 1..Len(task.subtasks) |-> Stringify(R, task.subtasks[i])]]

\* a JSON text: whether JSON.parse accepts it, whether it holds an array, and
\* the elements of the array, each <<object>> or <<>> for null
JsonArray(items) == [parses |-> TRUE, array |-> TRUE, items |-> items]

\* a text that is no JSON
Unparseable == [parses |-> FALSE, array |-> FALSE, items |-> <<>>]

\* the JSON text of an object that is no array: {}
JsonObject == [parses |-> TRUE, array |-> FALSE, items |-> <<>>]

\* exportTasks(): the text returned, or the exception of JSON.stringify
exportTasks(R) ==
  IF Circular(R) THEN [raised |-> TRUE, text |-> Unparseable]
  ELSE [raised |-> FALSE,
        text |-> JsonArray([i \in 1..Len(R.tasks) |-> <<Stringify(R, R.tasks[i])>>])]

\* clearAllTasks()
clearAllTasks(R) == [R EXCEPT !.tasks = <<>>]

\* JSON.parse builds the objects of one parsed Task: the nested subtasks first,
\* then the task; every field is as the text has it
RECURSIVE Parsed(_, _)
RECURSIVE ParsedAll(_, _, _)
Parsed(H, json) ==
  LET kids == ParsedAll(H, json.subtasks, <<>>)
  IN [heap |-> Append(kids.heap, [json EXCEPT !.subtasks = kids.handles]),
      h |-> Len(kids.heap) + 1]

ParsedAll(H, jsons, handles) ==
  IF jsons = <<>> THEN [heap |-> H, handles |-> handles]
  ELSE LET one == Parsed(H, Head(jsons))
       IN ParsedAll(one.heap, Tail(jsons), Append(handles, one.h))

\* the body of the for loop of importTasks on one parsed Task object:
\* `if (task.completedAt)` is false for an absent and for a null completedAt,
\* which stay as the text has them
ImportedTask(task) ==
  [task EXCEPT !.createdAt = NewDate(task.createdAt),
               !.updatedAt = NewDate(task.updatedAt),
               !.completedAt = IF task.completedAt \in {NoDate, JsonNull}
                               THEN task.completedAt
                               ELSE NewDate(task.completedAt)]

\* the for loop of importTasks: an element that is null makes the loop throw,
\* the catch returns 0 and the tasks set so far stay
RECURSIVE ImportLoop(_, _, _)
ImportLoop(R, items, imported) ==
  IF items = <<>> THEN [R |-> R, result |-> imported]
  ELSE IF Head(items) = <<>> THEN [R |-> R, result |-> 0]
  ELSE LET one == Parsed(R.heap, Head(items)[1])
           R1 == [R EXCEPT !.heap = [one.heap EXCEPT ![one.h] = ImportedTask(@)]]
       IN ImportLoop([R1 EXCEPT !.tasks = MapSet(R1, R1.heap[one.h].id, one.h)],
                     Tail(items), imported + 1)

\* importTasks(json): the registry afterwards and the number returned
importTasks(R, json) ==
  IF ~json.parses \/ ~json.array THEN [R |-> R, result |-> 0]
  ELSE ImportLoop(R, json.items, 0)

----------------------------------------------------------------------------
\* Learning registry (learning-manager.ts).  A learning store L is
\* [learnings |-> the Map values in insertion order, metrics |-> the metrics].

\* `learn_${Date.now().toString(36)}_${Math.random().toString(36).substring(2, 6)}`
generateLearningId(ts, rnd) == <<ts, rnd>>

\* taskId 'error' of the learning processMessage records on a failure
ErrorTaskId == <<-1, 0>>

\* taskId 'unknown' of a learning_record tool call without session task
UnknownTaskId == <<-2, 0>>

\* learnings.set(entry.id, entry)
LearningSet(ls, entry) ==
  LET at == {i \in 1..Len(ls) : ls[i].id = entry.id}
  IN IF at = {} THEN Append(ls, entry)
     ELSE [ls EXCEPT ![CHOOSE i \in at : TRUE] = entry]

\* the metrics at module load
InitialMetrics ==
  [totalTasks |-> 0, completedTasks |-> 0, failedTasks |-> 0,
   successRate |-> [num |-> 0, den |-> 1],
   averageCompletionTime |-> "finite"]

\* a recordLearning that counts every outcome other than success as failed
recordLearning_PartialFails(L, params, ts, rnd) ==
  LET entry == [id |-> generateLearningId(ts, rnd),
                timestamp |-> ts,
                taskId |-> params.taskId,
                pattern |-> params.pattern,
                outcome |-> params.outcome,
                feedback |-> params.feedback,
                improvement |-> params.improvement]
      total == L.metrics.totalTasks + 1
      completed == L.metrics.completedTasks + (IF params.outcome = "success" THEN 1 ELSE 0)
      failed == L.metrics.failedTasks + (IF params.outcome # "success" THEN 1 ELSE 0)
  IN [learnings |-> LearningSet(L.learnings, entry),
      metrics |-> [L.metrics EXCEPT !.totalTasks = total,
                                    !.completedTasks = completed,
                                    !.failedTasks = failed,
                                    !.successRate = [num |-> completed, den |-> total]]]

\* recordLearning(params)
recordLearning(L, params, ts, rnd) ==
  LET entry == [id |-> generateLearningId(ts, rnd),
                timestamp |-> ts,
                taskId |-> params.taskId,
                pattern |-> params.pattern,
                outcome |-> params.outcome,
                feedback |-> params.feedback,
                improvement |-> params.improvement]
      total == L.metrics.totalTasks + 1
      completed == L.metrics.completedTasks + (IF params.outcome = "success" THEN 1 ELSE 0)
      failed == L.metrics.failedTasks + (IF params.outcome = "failure" THEN 1 ELSE 0)
  IN [learnings |-> LearningSet(L.learnings, entry),
      metrics |-> [L.metrics EXCEPT !.totalTasks = total,
                                    !.completedTasks = completed,
                                    !.failedTasks = failed,
                                    !.successRate = [num |-> completed, den |-> total]]]

\* recordCompletionTime(durationMs): (average * (completed - 1) + duration) / completed
\* is Infinity or NaN when completedTasks is 0, and stays NaN afterwards
recordCompletionTime(L) ==
  [L EXCEPT !.metrics.averageCompletionTime =
     IF L.metrics.completedTasks = 0 \/ @ = "non-finite" THEN "non-finite" ELSE "finite"]

\* String.prototype.toLowerCase on a text, which is the sequence of its characters
LowerChar(c) == IF c = "A" THEN "a" ELSE IF c = "B" THEN "b" ELSE c

toLowerCase(text) == [i \in 1..Len(text) |-> LowerChar(text[i])]

\* text.split(/\s+/) from character idx on, `word` being the characters read
\* since the last white space: the text is cut at every run of white space, so a
\* text that starts or ends with white space gives an empty first or last word
\* and the empty text gives one empty word
RECURSIVE SplitWords(_, _, _)
SplitWords(text, idx, word) ==
  IF idx > Len(text) THEN <<word>>
  ELSE IF text[idx] = " "
       THEN IF idx > 1 /\ text[idx - 1] = " "
            THEN SplitWords(text, idx + 1, word)
            ELSE <<word>> \o SplitWords(text, idx + 1, <<>>)
       ELSE SplitWords(text, idx + 1, Append(word, text[idx]))

\* text.includes(word): the word is a substring; the empty word always is
Includes(text, word) ==
  \E i \in 0..(Len(text) - Len(word)) : SubSeq(text, i + 1, i + Len(word)) = word

\* the score findSimilarLearnings gives an entry: the words the pattern includes
Score(entry, words) ==
  Cardinality({i \in 1..Len(words) : Includes(toLowerCase(entry.pattern), words[i])})

\* .sort((a, b) => b.score - a.score): Array.prototype.sort is stable, so items
\* of equal score keep their order; `sorted` holds the items placed so far
RECURSIVE SortByScore(_, _)
SortByScore(items, sorted) ==
  IF items = <<>> THEN sorted
  ELSE LET item == Head(items)
           before == SelectSeq(sorted, LAMBDA x : x.score >= item.score)
           after == SelectSeq(sorted, LAMBDA x : x.score < item.score)
       IN SortByScore(Tail(items), before \o <<item>> \o after)

\* findSimilarLearnings(pattern, limit)
findSimilarLearnings(ls, pattern, limit) ==
  LET words == SplitWords(toLowerCase(pattern), 1, <<>>)
      scored == [i \in 1..Len(ls) |-> [entry |-> ls[i], score |-> Score(ls[i], words)]]
      kept == SelectSeq(scored, LAMBDA item : item.score > 0)
      cut == Slice0(SortByScore(kept, <<>>), limit)
  IN [i \in 1..Len(cut) |-> cut[i].entry]

\* array.slice(-n): the last n elements
SliceLast(s, n) ==
  IF Len(s) <= n THEN s ELSE SubSeq(s, Len(s) - n + 1, Len(s))

\* .filter(entry => entry.improvement !== undefined).map(entry => entry.improvement)
Improvements(ls) ==
  LET present == SelectSeq(ls, LAMBDA entry : entry.improvement # Undefined)
  IN [i \in 1..Len(present) |-> present[i].improvement]

\* self.indexOf(value): the first index of the value
IndexOf(self, value) ==
  CHOOSE i \in 1..Len(self) :
    /\ self[i] = value
    /\ \A j \in 1..(i - 1) : self[j] # value

\* .filter((value, index, self) => self.indexOf(value) === index)
RECURSIVE FilterFirst(_, _)
FilterFirst(self, index) ==
  IF index > Len(self) THEN <<>>
  ELSE IF IndexOf(self, self[index]) = index
       THEN <<self[index]>> \o FilterFirst(self, index + 1)
       ELSE FilterFirst(self, index + 1)

\* a getImprovementSuggestions without the filter on indexOf
getImprovementSuggestions_All(ls) == Improvements(ls)

\* getImprovementSuggestions()
getImprovementSuggestions(ls) == FilterFirst(Improvements(ls), 1)

\* the number of improvements getLearningsSummary keeps: slice(-5)
SummaryImprovements == 5

\* getLearningsSummary().improvements
getLearningsSummaryImprovements(ls) ==
  SliceLast(getImprovementSuggestions(ls), SummaryImprovements)

----------------------------------------------------------------------------
\* JSON transfer of the learning registry (exportLearnings, importLearnings)

\* JSON.stringify of the metrics: a number that is not finite is written null
MetricsToJSON(m) ==
  [m EXCEPT !.averageCompletionTime = IF @ = "non-finite" THEN "null" ELSE @]

\* JSON.stringify of one learning entry
StringifyEntry(entry) == [entry EXCEPT !.timestamp = DateToJSON(@)]

\* a JSON text read by importLearnings: whether JSON.parse accepts it, whether
\* it holds an object (not null), whether the object has a `learnings` value,
\* whether that value is an array, the elements of the array, each <<entry>> or
\* <<>> for null, and <<metrics>> or <<>> when the object has none
LearningsJson(items, metricsJson) ==
  [parses |-> TRUE, object |-> TRUE, listed |-> TRUE, iterable |-> TRUE,
   items |-> items, metrics |-> metricsJson]

\* exportLearnings()
exportLearnings(L) ==
  LearningsJson([i \in 1..Len(L.learnings) |-> <<StringifyEntry(L.learnings[i])>>],
                <<MetricsToJSON(L.metrics)>>)

\* clearLearnings(): the metrics stay
clearLearnings(L) == [L EXCEPT !.learnings = <<>>]

\* the body of the for loop of importLearnings on one parsed entry
ImportedEntry(entry) == [entry EXCEPT !.timestamp = NewDate(@)]

\* the for loop of importLearnings: an element that is null makes the loop
\* throw, the catch returns 0 and the entries set so far stay
RECURSIVE ImportEntries(_, _, _)
ImportEntries(L, items, imported) ==
  IF items = <<>> THEN [L |-> L, result |-> imported, thrown |-> FALSE]
  ELSE IF Head(items) = <<>> THEN [L |-> L, result |-> 0, thrown |-> TRUE]
  ELSE ImportEntries([L EXCEPT !.learnings = LearningSet(@, ImportedEntry(Head(items)[1]))],
                     Tail(items), imported + 1)

\* Object.assign(metrics, updates): the keys of `updates` are set on the
\* metrics and every other field stays
MetricsAssign(target, updates) ==
  [f \in DOMAIN target \cup DOMAIN updates |->
     IF f \in DOMAIN updates THEN updates[f] ELSE target[f]]

\* importLearnings(json): the registry afterwards and the number returned
importLearnings(L, json) ==
  IF ~json.parses \/ ~json.object THEN [L |-> L, result |-> 0]
  ELSE IF json.listed /\ ~json.iterable THEN [L |-> L, result |-> 0]
  ELSE LET loop == IF json.listed THEN ImportEntries(L, json.items, 0)
                   ELSE [L |-> L, result |-> 0, thrown |-> FALSE]
       IN IF loop.thrown THEN [L |-> loop.L, result |-> 0]
          ELSE IF json.metrics # <<>>
               THEN [L |-> [loop.L EXCEPT !.metrics = MetricsAssign(@, json.metrics[1])],
                     result |-> loop.result]
               ELSE [L |-> loop.L, result |-> loop.result]

\* updateMetrics(updates): Object.assign(metrics, updates)
updateMetrics(L, updates) ==
  [L EXCEPT !.metrics = MetricsAssign(@, updates)]

----------------------------------------------------------------------------
\* Tool-call dispatch (agent.ts handleToolCalls).  A tool call is
\* [id, name, valid, args]: `valid` says whether fn.arguments parses as JSON,
\* and an optional argument that is absent reads as Undefined.

\* the state handleToolCalls works on
ToolState(R, sessionTasks, L) ==
  [R |-> R, sessionTasks |-> sessionTasks, L |-> L, results |-> <<>>, raised |-> FALSE]

\* formatTaskList(tasks) throws on a listed task whose description is undefined
\* (task.description.slice)
FormatThrows(R, listed) ==
  \E i \in 1..Len(listed) : R.heap[listed[i]].description = Undefined

\* one iteration of the for loop, after JSON.parse succeeded: the switch
DispatchOne(S, tc, ts, rnd) ==
  CASE tc.name = "task_create" ->
         LET h == NewHandle(S.R)
             R1 == createTask(S.R, [description |-> tc.args.description,
                                    priority |-> tc.args.priority,
                                    category |-> tc.args.category,
                                    parentTaskId |-> NoId,
                                    dependencies |-> <<>>], ts, rnd)
         IN [S EXCEPT !.R = R1,
                      !.sessionTasks = Append(@, h),
                      !.results = Append(@, <<tc.id, "Task erstellt">>)]
    [] tc.name = "task_update" ->
         LET found == MapGet(S.R, tc.args.taskId) # 0
             R1 == updateTask(S.R, tc.args.taskId,
                              [status |-> tc.args.status,
                               priority |-> tc.args.priority,
                               description |-> tc.args.description], ts)
         IN [S EXCEPT !.R = R1,
                      !.results = Append(@, <<tc.id, IF found THEN "Task aktualisiert"
                                                     ELSE "Task nicht gefunden">>)]
    [] tc.name = "task_list" ->
         LET listed == listTasks(S.R, [status |-> tc.args.status,
                                       category |-> tc.args.category,
                                       priority |-> Undefined,
                                       limit |-> tc.args.limit])
         IN [S EXCEPT !.results = Append(@, <<tc.id, IF FormatThrows(S.R, listed)
                                                     THEN "Fehler" ELSE "Task-Uebersicht">>)]
    [] tc.name = "learning_record" ->
         LET n == Len(S.sessionTasks)
             L1 == recordLearning(S.L,
                     [taskId |-> IF n = 0 THEN UnknownTaskId
                                 ELSE S.R.heap[S.sessionTasks[n]].id,
                      pattern |-> tc.args.pattern,
                      outcome |-> tc.args.outcome,
                      feedback |-> Undefined,
                      improvement |-> tc.args.improvement], ts, rnd)
         IN [S EXCEPT !.L = L1,
                      !.results = Append(@, <<tc.id, "Learning gespeichert">>)]
    [] tc.name \in {"vector_store_search", "documentation_search"} ->
         [S EXCEPT !.results = Append(@, <<tc.id, "Keine relevanten Dokumente gefunden.">>)]
    [] tc.name \in {"codebase_search", "sync_vector_store"} ->
         [S EXCEPT !.results = Append(@, <<tc.id, "nicht verfuegbar">>)]
    [] OTHER ->
         [S EXCEPT !.results = Append(@, <<tc.id, "Tool nicht implementiert">>)]

\* handleToolCalls(toolCalls, session): JSON.parse stands outside the try, so
\* an unparseable arguments text ends the loop with an exception
RECURSIVE handleToolCalls(_, _, _, _)
handleToolCalls(S, toolCalls, ts, rnds) ==
  IF toolCalls = <<>> THEN S
  ELSE IF ~Head(toolCalls).valid THEN [S EXCEPT !.raised = TRUE]
  ELSE handleToolCalls(DispatchOne(S, Head(toolCalls), ts, Head(rnds)),
                       Tail(toolCalls), ts, Tail(rnds))

----------------------------------------------------------------------------
\* State

\* a getOpenAIClient that caches the client before it looks at the credential
getOpenAIClient_CachedFirst(key, client) ==
  IF client = "null" /\ key = ""
  THEN [raised |-> TRUE, openaiClient |-> "client"]
  ELSE [raised |-> FALSE, openaiClient |-> "client"]

\* getOpenAIClient(): with no client cached and no credential configured it
\* throws 'OPENAI_API_KEY is not configured' and caches nothing; otherwise it
\* returns the cached client, constructing it first when none is cached
getOpenAIClient(key, client) ==
  IF client = "null" /\ key = ""
  THEN [raised |-> TRUE, openaiClient |-> client]
  ELSE [raised |-> FALSE, openaiClient |-> "client"]

\* activeSession = null
NoSession == <<>>

\* the AgentSession initializeSession builds
NewSession(threadId) ==
  [threadId |-> threadId, status |-> "active", tasks |-> <<>>, messages |-> <<>>,
   runId |-> 0]

\* no agent call is running
NoCall ==
  [op |-> "none", frame |-> "none", msg |-> "", taskId |-> NoId, handle |-> 0,
   inner |-> <<>>]

\* no remote run
NoRun == [status |-> "none", startTime |-> 0, batch |-> <<>>, rounds |-> 0]

\* no agent call has finished yet
NoRet == [kind |-> "none", op |-> "none", text |-> <<>>, success |-> FALSE, taskId |-> NoId,
          learned |-> <<>>, runEnd |-> "none", failure |-> "none"]

\* the registry and the learning store of the current state
Reg == [heap |-> heap, tasks |-> tasks]

Learn == [learnings |-> learnings, metrics |-> metrics]

\* the state once the modules are loaded, `key` being the credential the
\* environment holds (process.env.OPENAI_API_KEY || '')
Loaded(key, vs) ==
  /\ heap = <<>>
  /\ tasks = <<>>
  /\ now = 0
  /\ activeSession = NoSession
  /\ threads = <<>>
  /\ learnings = <<>>
  /\ metrics = InitialMetrics
  /\ pc = "idle"
  /\ call = NoCall
  /\ run = NoRun
  /\ ret = NoRet
  /\ ops = 0
  /\ calls = 0
  /\ apiKey = key
  /\ vectorStoreId = vs
  /\ openaiClient = "null"
  /\ requests = {}
  /\ procs = <<>>

\* the credential is configured
Init == Loaded("sk", "")

---------------------------------------------------------------------------------------------------------------------------------------------------
\* Inputs of the registry operations

\* identifiers a caller can pass: those of the registry and one no task has
IdInputs == TaskIds(Reg) \cup {GhostId}

RandInputs == 1..MaxRand

\* params of createTask without parent and dependencies
PlainParams ==
  [description : {"d"}, priority : {Undefined, "low", "critical"}, category : {Undefined},
   parentTaskId : {NoId}, dependencies : {<<>>}]

\* params of createTask: plain ones, subtasks of a known or unknown parent,
\* tasks depending on a registry task, and subtasks depending on their parent
CreateParams ==
  PlainParams
  \cup [description : {"d"}, priority : {Undefined}, category : {Undefined},
        parentTaskId : IdInputs, dependencies : {<<>>}]
  \cup [description : {"d"}, priority : {Undefined}, category : {Undefined},
        parentTaskId : {NoId}, dependencies : {<<id>> : id \in TaskIds(Reg)}]
  \cup {[description |-> "d", priority |-> Undefined, category |-> Undefined,
         parentTaskId |-> id, dependencies |-> <<id>>] : id \in TaskIds(Reg)}

\* updates of updateTask: every subset of the keys status and priority, each
\* with a value of its type
UpdateInputs ==
  {u \in UNION {[keys -> {"completed", "high"}] : keys \in SUBSET {"status", "priority"}} :
     /\ "status" \in DOMAIN u => u["status"] \in TaskStatus
     /\ "priority" \in DOMAIN u => u["priority"] \in TaskPriority}

\* Longest tool-call batch of one required action
MaxBatch == 1

\* the tool calls the remote model can request (config.ts AGENT_TOOLS gives the
\* argument schemas); an optional argument left out reads as Undefined
ToolCallInputs ==
  [name : {"task_create"}, valid : {TRUE},
     args : [description : {"d"}, priority : {Undefined, "critical"},
             category : {Undefined, "security"}]]
  \cup
  [name : {"task_update"}, valid : {TRUE},
     args : [taskId : IdInputs, status : {Undefined, "completed"},
             priority : {Undefined, "low"}, description : {Undefined, "e"}]]
  \cup
  [name : {"task_list"}, valid : {TRUE},
     args : [status : {Undefined, "all", "pending"}, category : {Undefined},
             limit : {NoLimit, <<0>>, <<1>>}]]
  \cup
  [name : {"learning_record"}, valid : {TRUE},
     args : [pattern : {"p"}, outcome : {"success", "failure", "partial"},
             improvement : {Undefined, "i"}]]
  \cup
  [name : {"vector_store_search", "codebase_search", "sync_vector_store",
           "task_complete"},
     valid : {TRUE}, args : {[taskId |-> GhostId]}]
  \cup
  [name : {"task_update"}, valid : {FALSE}, args : {[taskId |-> GhostId]}]

\* the names of the tools config.ts advertises to the remote model (AGENT_TOOLS)
AGENT_TOOLS ==
  {"task_create", "task_update", "task_list", "task_complete", "vector_store_search",
   "codebase_search", "learning_record", "sync_vector_store"}

\* calls of the advertised tools as the remote model may request them, the
\* task_complete calls naming a task of the registry
AdvertisedCalls ==
  {tc \in ToolCallInputs : tc.valid /\ tc.name \in AGENT_TOOLS}
  \cup
  [name : {"task_complete"}, valid : {TRUE},
     args : [taskId : TaskIds(Reg), result : {Undefined, "r"}]]

\* batches of one to MaxBatch calls; call identifiers are the positions
BatchInputs ==
  UNION {[1..n -> ToolCallInputs] : n \in 1..MaxBatch}

WithIds(batch) ==
  [i \in 1..Len(batch) |-> [id |-> i, name |-> batch[i].name, valid |-> batch[i].valid,
                            args |-> batch[i].args]]

\* Task objects and learning entries a batch makes when all of it is dispatched
Allocations(batch) ==
  Cardinality({i \in 1..Len(batch) : batch[i].name = "task_create"})

Recordings(batch) ==
  Cardinality({i \in 1..Len(batch) : batch[i].name = "learning_record"})

----------------------------------------------------------------------------
\* Operations of the registry API, each one call

\* the clock advances
Tick ==
  /\ now < MaxTime
  /\ now' = now + 1
  /\ UNCHANGED <<heap, tasks, activeSession, threads, learnings, metrics, agentVars, ops>>

SetReg(R) ==
  /\ heap' = R.heap
  /\ tasks' = R.tasks

CreateTaskFrom(inputs) ==
  /\ Len(heap) < MaxTasks
  /\ \E params \in inputs, rnd \in RandInputs :
       SetReg(createTask(Reg, params, now, rnd))
  /\ UNCHANGED <<now, activeSession, threads, learnings, metrics, agentVars, ops>>

CreateTask == CreateTaskFrom(CreateParams)

UpdateTask ==
  /\ ops < MaxUpdates
  /\ ops' = ops + 1
  /\ \E id \in IdInputs, updates \in UpdateInputs :
       SetReg(updateTask(Reg, id, updates, now))
  /\ UNCHANGED <<now, activeSession, threads, learnings, metrics, agentVars>>

SetTaskStatus ==
  /\ ops < MaxUpdates
  /\ ops' = ops + 1
  /\ \E id \in IdInputs, status \in TaskStatus :
       SetReg(setTaskStatus(Reg, id, status, now))
  /\ UNCHANGED <<now, activeSession, threads, learnings, metrics, agentVars>>

CompleteTask ==
  /\ ops < MaxUpdates
  /\ ops' = ops + 1
  /\ \E id \in IdInputs, success \in BOOLEAN :
       SetReg(completeTask(Reg, id, [success |-> success, summary |-> "s"], now))
  /\ UNCHANGED <<now, activeSession, threads, learnings, metrics, agentVars>>

Next ==
  \/ Tick
  \/ CreateTask
  \/ UpdateTask
  \/ SetTaskStatus
  \/ CompleteTask

Spec == Init /\ [][Next]_vars

----------------------------------------------------------------------------
\* Tool calls on the registry: a session and the batches its runs dispatch

CreatePlainTask == CreateTaskFrom(PlainParams)

\* handleToolCalls(toolCalls, session) for one batch of a run
HandleToolCalls ==
  /\ activeSession # NoSession
  /\ ops < MaxUpdates
  /\ ops' = ops + 1
  /\ \E batch \in BatchInputs :
       /\ Len(heap) + Allocations(batch) <= MaxTasks
       /\ Len(learnings) + Recordings(batch) <= MaxLearnings
       /\ \E rnds \in [1..Len(batch) -> RandInputs] :
            LET S == handleToolCalls(
                       ToolState(Reg, activeSession[1].tasks, Learn),
                       WithIds(batch), now, rnds)
            IN /\ SetReg(S.R)
               /\ activeSession' = <<[activeSession[1] EXCEPT !.tasks = S.sessionTasks]>>
               /\ learnings' = S.L.learnings
               /\ metrics' = S.L.metrics
  /\ UNCHANGED <<now, threads, agentVars>>

----------------------------------------------------------------------------
\* The registry with deletion

\* what a registry call returned: `value` is the returned value
Returned(op, taskId, value) ==
  [NoRet EXCEPT !.kind = "return", !.op = op, !.taskId = taskId, !.text = <<value>>]

\* deleteTask(taskId)
DeleteTask ==
  /\ ops < MaxUpdates
  /\ ops' = ops + 1
  /\ \E id \in IdInputs :
       LET d == deleteTask(Reg, id)
       IN /\ SetReg(d.R)
          /\ ret' = Returned("deleteTask", id, d.result)
  /\ UNCHANGED <<now, activeSession, threads, learnings, metrics, pc, call, run, calls, clientVars, procs>>

NextStore ==
  \/ Tick
  \/ CreateTask
  \/ UpdateTask
  \/ CompleteTask
  \/ DeleteTask

SpecStore == Init /\ [][NextStore]_vars

----------------------------------------------------------------------------
\* Completion of tasks that were updated before

\* the TaskResult values passed to completeTask
ResultInputs == {[success |-> success, summary |-> "s"] : success \in BOOLEAN}

\* completeTask(taskId, result) called once the update calls of the behaviour
\* are made, so that it meets tasks of any status
CompleteUpdatedTask ==
  /\ ops = MaxUpdates
  /\ ops' = ops + 1
  /\ \E id \in IdInputs, result \in ResultInputs :
       SetReg(completeTask(Reg, id, result, now))
  /\ UNCHANGED <<now, activeSession, threads, learnings, metrics, agentVars>>

NextComplete ==
  \/ Tick
  \/ CreatePlainTask
  \/ UpdateTask
  \/ SetTaskStatus
  \/ CompleteTask
  \/ CompleteUpdatedTask

SpecComplete == Init /\ [][NextComplete]_vars

----------------------------------------------------------------------------
\* Export, clearing and import of the task registry

\* Export, clear and import calls in one behaviour
MaxTransfers == 3

\* the text the last exportTasks call returned, which the caller still holds
TaskTexts == IF ret.kind = "return" /\ ret.op = "exportTasks" THEN {ret.text[1]} ELSE {}

\* exportTasks()
ExportTasks ==
  /\ ops < MaxUpdates + MaxTransfers
  /\ ops' = ops + 1
  /\ LET e == exportTasks(Reg)
     IN ret' = IF e.raised THEN [NoRet EXCEPT !.kind = "raise", !.op = "exportTasks"]
               ELSE Returned("exportTasks", NoId, e.text)
  /\ UNCHANGED <<heap, tasks, now, activeSession, threads, learnings, metrics, pc, call, run,
                 calls, clientVars, procs>>

\* clearAllTasks()
ClearAllTasks ==
  /\ ops < MaxUpdates + MaxTransfers
  /\ ops' = ops + 1
  /\ SetReg(clearAllTasks(Reg))
  /\ UNCHANGED <<now, activeSession, threads, learnings, metrics, agentVars>>

\* importTasks(json) for a text of `texts`
ImportTasksFrom(texts) ==
  /\ ops < MaxUpdates + MaxTransfers
  /\ ops' = ops + 1
  /\ \E json \in texts :
       LET i == importTasks(Reg, json)
       IN /\ SetReg(i.R)
          /\ ret' = Returned("importTasks", NoId, i.result)
  /\ UNCHANGED <<now, activeSession, threads, learnings, metrics, pc, call, run, calls, clientVars, procs>>

\* importTasks(json) of an exported text
ImportTasks == ImportTasksFrom(TaskTexts)

\* params of createTask for the tasks to transfer: top-level tasks and subtasks
\* of registry tasks
TransferParams ==
  [description : {"d"}, priority : {Undefined}, category : {Undefined},
   parentTaskId : {NoId} \cup TaskIds(Reg), dependencies : {<<>>}]

CreateTransferTask == CreateTaskFrom(TransferParams)

NextTransfer ==
  \/ Tick
  \/ CreateTransferTask
  \/ CompleteTask
  \/ ExportTasks
  \/ ClearAllTasks
  \/ ImportTasks

SpecTransfer == Init /\ [][NextTransfer]_vars

----------------------------------------------------------------------------
\* The learning registry API

\* a pattern text is the sequence of its characters
PatternInputs == {<<"a">>, <<"A", "b">>}

\* params of recordLearning
LearnParams ==
  [taskId : {UnknownTaskId}, pattern : PatternInputs,
   outcome : {"success", "failure", "partial"}, feedback : {Undefined},
   improvement : {Undefined, "i"}]

\* updates of updateMetrics: the counters set back to zero
MetricsInputs == {[totalTasks |-> 0, completedTasks |-> 0, failedTasks |-> 0]}

\* the text the last exportLearnings call returned, which the caller still holds
LearningTexts ==
  IF ret.kind = "return" /\ ret.op = "exportLearnings" THEN {ret.text[1]} ELSE {}

SetLearn(L) ==
  /\ learnings' = L.learnings
  /\ metrics' = L.metrics

\* recordLearning(params) while the registry holds fewer than `max` entries and
\* the metrics count fewer than `max` recordings
RecordLearningFrom(inputs, rands, max) ==
  /\ Len(learnings) < max
  /\ metrics.totalTasks < max
  /\ \E params \in inputs, rnd \in rands :
       SetLearn(recordLearning(Learn, params, now, rnd))
  /\ UNCHANGED <<heap, tasks, now, activeSession, threads, agentVars, ops>>

RecordLearning == RecordLearningFrom(LearnParams, RandInputs, MaxLearnings)

\* recordCompletionTime(durationMs), called by the user of the module
RecordCompletionTime ==
  /\ SetLearn(recordCompletionTime(Learn))
  /\ UNCHANGED <<heap, tasks, now, activeSession, threads, agentVars, ops>>

\* updateMetrics(updates)
UpdateMetrics ==
  /\ ops < MaxUpdates
  /\ ops' = ops + 1
  /\ \E updates \in MetricsInputs : SetLearn(updateMetrics(Learn, updates))
  /\ UNCHANGED <<heap, tasks, now, activeSession, threads, agentVars>>

\* exportLearnings()
ExportLearnings ==
  /\ ops < MaxUpdates + MaxTransfers
  /\ ops' = ops + 1
  /\ ret' = Returned("exportLearnings", NoId, exportLearnings(Learn))
  /\ UNCHANGED <<heap, tasks, now, activeSession, threads, learnings, metrics, pc, call, run,
                 calls, clientVars, procs>>

\* clearLearnings()
ClearLearnings ==
  /\ ops < MaxUpdates + MaxTransfers
  /\ ops' = ops + 1
  /\ SetLearn(clearLearnings(Learn))
  /\ UNCHANGED <<heap, tasks, now, activeSession, threads, agentVars>>

\* importLearnings(json) for a text of `texts`
ImportLearningsFrom(texts) ==
  /\ ops < MaxUpdates + MaxTransfers
  /\ ops' = ops + 1
  /\ \E json \in texts :
       LET i == importLearnings(Learn, json)
       IN /\ SetLearn(i.L)
          /\ ret' = Returned("importLearnings", NoId, i.result)
  /\ UNCHANGED <<heap, tasks, now, activeSession, threads, pc, call, run, calls, clientVars, procs>>

\* importLearnings(json) of an exported text
ImportLearnings == ImportLearningsFrom(LearningTexts)

\* the JSON text of an object without `learnings` whose `metrics` has one
\* field only
MetricsOnlyLearnings ==
  [parses |-> TRUE, object |-> TRUE, listed |-> FALSE, iterable |-> FALSE,
   items |-> <<>>, metrics |-> <<[totalTasks |-> 0]>>]

\* importLearnings(json) of a text that holds metrics only
ImportMetricsOnly == ImportLearningsFrom({MetricsOnlyLearnings})

\* the exported text with the timestamp of one entry taken out
UndatedLearningTexts ==
  UNION {{[text EXCEPT !.items[i][1].timestamp = NoDate] : i \in 1..Len(text.items)} :
         text \in LearningTexts}

\* importLearnings(json) of an exported text in which an entry has lost its
\* timestamp
ImportUndatedLearnings == ImportLearningsFrom(UndatedLearningTexts)

\* the longest query text
MaxQuery == 3

\* the characters of the query texts
QueryChars == {"a", "B", " "}

\* the pattern argument of findSimilarLearnings, the empty text included
QueryInputs == UNION {[1..n -> QueryChars] : n \in 0..MaxQuery}

\* the limit argument of findSimilarLearnings
SimilarLimits == 0..(MaxLearnings + 1)

NextLearn ==
  \/ Tick
  \/ RecordLearning
  \/ UpdateMetrics

SpecLearn == Init /\ [][NextLearn]_vars

\* params of recordLearning for the entries to transfer
TransferLearnParams ==
  [taskId : {UnknownTaskId}, pattern : {<<"a">>}, outcome : {"success", "partial"},
   feedback : {Undefined}, improvement : {Undefined, "i"}]

RecordTransferLearning == RecordLearningFrom(TransferLearnParams, RandInputs, MaxLearnings)

NextLearnTransfer ==
  \/ Tick
  \/ RecordTransferLearning
  \/ ExportLearnings
  \/ ClearLearnings
  \/ ImportLearnings
  \/ ImportMetricsOnly
  \/ ImportUndatedLearnings

SpecLearnTransfer == Init /\ [][NextLearnTransfer]_vars

\* all.filter((l) => l.outcome === o).length
CountOutcome(ls, o) == Cardinality({i \in 1..Len(ls) : ls[i].outcome = o})

\* the counts of getLearningsSummary()
getLearningsSummary(ls) ==
  [total |-> Len(ls),
   successful |-> CountOutcome(ls, "success"),
   failed |-> CountOutcome(ls, "failure"),
   partial |-> CountOutcome(ls, "partial")]

\* recordLearning and clearLearnings calls in any order
NextCounts ==
  \/ Tick
  \/ RecordLearning
  \/ RecordCompletionTime
  \/ ClearLearnings

SpecCounts == Init /\ [][NextCounts]_vars

----------------------------------------------------------------------------
\* Remote conversation service and its client (client part of agent.ts)

\* Polls of one run before timeoutMs has elapsed (timeoutMs / pollIntervalMs, scaled)
MaxPolls == 2

\* NEXIFYAI_CONFIG.pollIntervalMs: one tick of the clock
pollIntervalMs == 1

\* NEXIFYAI_CONFIG.timeoutMs, scaled to the polls of the model
timeoutMs == MaxPolls * pollIntervalMs
\* Latest reading of the clock while a run of the agent is awaited
MaxClock == 2
\* Times the remote service asks for tool outputs during one run
MaxRounds == 1
\* Agent calls (processMessage, executeTask, runTask) in one behaviour
MaxCalls == 1

\* client.beta.threads.messages.list(threadId, { limit, order }): the first
\* `limit` messages of the thread in the given order
ListMessages(thread, limit, order) ==
  LET ordered == IF order = "asc" THEN thread ELSE Reverse(thread)
  IN SubSeq(ordered, 1, Min(limit, Len(ordered)))

\* getThreadMessages(threadId, limit): the list in order 'asc', as ChatMessages
getThreadMessages(thread, limit) == ListMessages(thread, limit, "asc")

\* the message of the Error waitForRunCompletion throws on a terminal status
RunError(status) ==
  CASE status = "failed" -> "Run failed"
    [] status = "cancelled" -> "Run was cancelled"
    [] status = "expired" -> "Run expired"

\* the texts a caller sends, and the replies the assistant writes
UserMessages == {"u1", "u2"}

AssistantReplies == {"a1"}

\* the message executeTask sends for a task
TaskPrompt == "Fuehre diesen Task aus"

\* the tool-call batches the runs of the agent specification request
AgentBatchInputs ==
  {<<tc>> : tc \in
     [name : {"task_create"}, valid : {TRUE},
        args : [description : {"d"}, priority : {Undefined}, category : {Undefined}]]
     \cup
     [name : {"task_update"}, valid : {TRUE},
        args : [taskId : TaskIds(Reg), status : {Undefined},
                priority : {Undefined}, description : {Undefined}]]
     \cup
     [name : {"task_update"}, valid : {FALSE}, args : {[taskId |-> GhostId]}]}

----------------------------------------------------------------------------
\* Agent orchestrator (agent.ts), one step per await

Sess == activeSession[1]

\* the call ends: its result is `result`
Finish(R, L, session, result) ==
  /\ SetReg(R)
  /\ learnings' = L.learnings
  /\ metrics' = L.metrics
  /\ activeSession' = session
  /\ ret' = result
  /\ pc' = "idle"
  /\ call' = NoCall
  /\ run' = NoRun

\* what processMessage hands to its caller: a returned text or a raised error
PMOutcome(kind, text, learned, failure, runEnd) ==
  [kind |-> kind, op |-> "processMessage", text |-> text, success |-> FALSE,
   taskId |-> NoId, learned |-> learned, runEnd |-> runEnd, failure |-> failure]

\* processMessage ends with `outcome`.  Called directly, the call ends with it;
\* called by executeTask, the outcome settles the promise that
\* `await processMessage(...)` of executeTask waits for, and executeTask goes
\* on in a later step.
PMEnds(R, L, session, outcome) ==
  IF call.op = "processMessage"
  THEN Finish(R, L, session, outcome)
  ELSE /\ SetReg(R)
       /\ learnings' = L.learnings
       /\ metrics' = L.metrics
       /\ activeSession' = session
       /\ call' = [call EXCEPT !.inner = <<outcome>>]
       /\ pc' = "afterProcessMessage"
       /\ run' = NoRun
       /\ UNCHANGED ret

\* processMessage returns `text` from its try block
PMReturns(R, L, sess, text, learned, failure, runEnd) ==
  PMEnds(R, L, <<sess>>, PMOutcome("return", text, learned, failure, runEnd))

\* the catch block of processMessage: status error, a failure learning, and
\* the formatted error string is returned
PMCatches(R, L, sess, message, failure, runEnd, rnd) ==
  LET L1 == recordLearning(L,
              [taskId |-> ErrorTaskId, pattern |-> "Fehler bei Verarbeitung",
               outcome |-> "failure", feedback |-> message,
               improvement |-> "Bessere Fehlerbehandlung"], now, rnd)
  IN PMReturns(R, L1, [sess EXCEPT !.status = "error"],
               <<"Fehler bei der Verarbeitung", message>>,
               <<[taskId |-> ErrorTaskId, outcome |-> "failure"]>>, failure, runEnd)

\* processMessage raises before its try block
PMRaises(message, failure) ==
  PMEnds(Reg, Learn, activeSession, PMOutcome("raise", <<message>>, <<>>, failure, "none"))

\* executeTask goes on after `await processMessage(...)`.  A returned text
\* continues the try block: completeTask with success true,
\* recordCompletionTime and a success learning.  A raised error enters the
\* catch block: completeTask with success false and a failure learning.
ExecuteTaskContinues ==
  /\ pc = "afterProcessMessage"
  /\ \E rnd \in RandInputs :
       LET inner == call.inner[1]
       IN IF inner.kind = "return"
          THEN LET R1 == completeTask(Reg, call.taskId,
                                      [success |-> TRUE, summary |-> inner.text], now)
                   L1 == recordLearning(recordCompletionTime(Learn),
                           [taskId |-> call.taskId, pattern |-> "Task",
                            outcome |-> "success", feedback |-> Undefined,
                            improvement |-> "Pattern fuer aehnliche Tasks verwenden"],
                           now, rnd)
               IN Finish(R1, L1, activeSession,
                         [kind |-> "return", op |-> call.op, text |-> inner.text,
                          success |-> TRUE, taskId |-> call.taskId,
                          learned |-> Append(inner.learned,
                                        [taskId |-> call.taskId, outcome |-> "success"]),
                          runEnd |-> inner.runEnd, failure |-> inner.failure])
          ELSE LET R1 == completeTask(Reg, call.taskId,
                                      [success |-> FALSE, summary |-> inner.text], now)
                   L1 == recordLearning(Learn,
                           [taskId |-> call.taskId, pattern |-> "Fehler bei Task",
                            outcome |-> "failure", feedback |-> inner.text[1],
                            improvement |-> Undefined], now, rnd)
               IN Finish(R1, L1, activeSession,
                         [kind |-> "return", op |-> call.op, text |-> inner.text,
                          success |-> FALSE, taskId |-> call.taskId,
                          learned |-> <<[taskId |-> call.taskId, outcome |-> "failure"]>>,
                          runEnd |-> "none", failure |-> inner.failure])
  /\ UNCHANGED <<now, threads, ops, calls, clientVars, procs>>

\* the running function calls getSession() and awaits it.  With no session,
\* initializeSession calls createThread, which gets the client and issues the
\* threads.create request before the call yields; with a session the promise
\* is already settled and the function goes on in a later step.
EnterGetSession(c) ==
  /\ IF activeSession # NoSession
     THEN /\ pc' = "getSession"
          /\ call' = c
          /\ UNCHANGED <<openaiClient, ret>>
     ELSE LET client == getOpenAIClient(apiKey, openaiClient)
          IN /\ openaiClient' = client.openaiClient
             /\ IF client.raised
                THEN /\ ret' = [kind |-> "raise", op |-> c.op,
                                text |-> <<"OPENAI_API_KEY is not configured">>,
                                success |-> FALSE, taskId |-> c.taskId, learned |-> <<>>,
                                runEnd |-> "none", failure |-> "getOpenAIClient"]
                     /\ pc' = "idle"
                     /\ call' = NoCall
                ELSE /\ pc' = "createThread"
                     /\ call' = c
                     /\ UNCHANGED ret
  /\ UNCHANGED <<apiKey, vectorStoreId, requests>>

\* processMessage(userMessage) is called
StartProcessMessage ==
  /\ pc = "idle"
  /\ calls < MaxCalls
  /\ calls' = calls + 1
  /\ \E m \in UserMessages :
       EnterGetSession([NoCall EXCEPT !.op = "processMessage", !.frame = "processMessage", !.msg = m])
  /\ UNCHANGED <<heap, tasks, now, activeSession, threads, learnings, metrics, run, ops,
                 procs>>

\* executeTask(taskId) is called
StartExecuteTask ==
  /\ pc = "idle"
  /\ calls < MaxCalls
  /\ calls' = calls + 1
  /\ \E id \in IdInputs :
       EnterGetSession([NoCall EXCEPT !.op = "executeTask", !.frame = "executeTask",
                                         !.msg = TaskPrompt, !.taskId = id])
  /\ UNCHANGED <<heap, tasks, now, activeSession, threads, learnings, metrics, run, ops,
                 procs>>

\* runTask(title, description, options) is called: createTask, then getSession
StartRunTask ==
  /\ pc = "idle"
  /\ calls < MaxCalls
  /\ Len(heap) < MaxTasks
  /\ calls' = calls + 1
  /\ \E priority \in {Undefined, "high"}, rnd \in RandInputs :
       /\ SetReg(createTask(Reg,
            [description |-> "d",
             priority |-> IF priority = Undefined THEN "medium" ELSE priority,
             category |-> "development", parentTaskId |-> NoId, dependencies |-> <<>>],
            now, rnd))
       /\ EnterGetSession([NoCall EXCEPT !.op = "runTask", !.frame = "runTask",
                                         !.msg = TaskPrompt,
                                         !.taskId = generateTaskId(now, rnd),
                                         !.handle = NewHandle(Reg)])
  /\ UNCHANGED <<now, activeSession, threads, learnings, metrics, run, ops, procs>>

\* getSession() is called while there is no session, by a caller that uses
\* the session afterwards
GetSession ==
  /\ pc = "idle"
  /\ activeSession = NoSession
  /\ EnterGetSession([NoCall EXCEPT !.op = "getSession", !.frame = "getSession"])
  /\ UNCHANGED <<heap, tasks, now, activeSession, threads, learnings, metrics, run, ops,
                 calls, procs>>

\* the threads.create request of `await createThread()` is answered.
\* Resolved, initializeSession assigns the new session, with no tasks and no
\* messages, and returns it.  Rejected, the error leaves getSession: it ends
\* runTask and executeTask, and a processMessage that executeTask awaits hands
\* it to executeTask.
CreateThreadAnswers ==
  /\ pc = "createThread"
  /\ \/ /\ threads' = Append(threads, <<>>)
        /\ activeSession' = <<NewSession(Len(threads) + 1)>>
        /\ pc' = "getSession"
        /\ UNCHANGED <<heap, tasks, learnings, metrics, call, run, ret>>
     \/ /\ IF call.frame = "processMessage"
           THEN PMRaises("network", "createThread")
           ELSE Finish(Reg, Learn, activeSession,
                       [kind |-> "raise", op |-> call.op, text |-> <<"network">>,
                        success |-> FALSE, taskId |-> call.taskId, learned |-> <<>>,
                        runEnd |-> "none", failure |-> "createThread"])
        /\ UNCHANGED threads
  /\ UNCHANGED <<now, ops, calls, clientVars, procs>>

\* `await getSession()` hands the session to the function that waits for it.
\* A direct caller has its session; runTask pushes its task to session.tasks and calls executeTask; executeTask
\* looks the task up in session.tasks, sets it in-progress and calls
\* processMessage; processMessage issues the request of addMessage.
AwaitSession ==
  /\ pc = "getSession"
  /\ CASE call.frame = "runTask" ->
            /\ activeSession' = <<[Sess EXCEPT !.tasks = Append(@, call.handle)]>>
            /\ call' = [call EXCEPT !.frame = "executeTask"]
            /\ pc' = "getSession"
            /\ UNCHANGED <<heap, tasks, ret, openaiClient>>
       [] call.frame = "executeTask" ->
            IF \E i \in 1..Len(Sess.tasks) : heap[Sess.tasks[i]].id = call.taskId
            THEN /\ SetReg(setTaskStatus(Reg, call.taskId, "in-progress", now))
                 /\ call' = [call EXCEPT !.frame = "processMessage"]
                 /\ pc' = "getSession"
                 /\ UNCHANGED <<activeSession, ret, openaiClient>>
            ELSE /\ ret' = [kind |-> "return", op |-> call.op,
                            text |-> <<"Task nicht gefunden">>, success |-> FALSE,
                            taskId |-> call.taskId, learned |-> <<>>,
                            runEnd |-> "none", failure |-> "none"]
                 /\ pc' = "idle"
                 /\ call' = NoCall
                 /\ UNCHANGED <<heap, tasks, activeSession, openaiClient>>
       [] call.frame = "getSession" ->
            /\ ret' = [NoRet EXCEPT !.kind = "return", !.op = "getSession"]
            /\ pc' = "idle"
            /\ call' = NoCall
            /\ UNCHANGED <<heap, tasks, activeSession, openaiClient>>
       [] call.frame = "processMessage" ->
            /\ pc' = "addMessage"
            /\ openaiClient' = getOpenAIClient(apiKey, openaiClient).openaiClient
            /\ UNCHANGED <<heap, tasks, activeSession, call, ret>>
  /\ UNCHANGED <<now, threads, learnings, metrics, run, ops, calls, apiKey, vectorStoreId, requests, procs>>

\* an addMessage step that sends the user message a second time
AddMessage_Twice ==
  /\ pc = "addMessage"
  /\ threads' = [threads EXCEPT ![Sess.threadId] =
                   Append(Append(@, [role |-> "user", content |-> call.msg]),
                          [role |-> "user", content |-> call.msg])]
  /\ activeSession' = <<[Sess EXCEPT !.messages = Append(@, call.msg),
                                     !.status = "processing"]>>
  /\ pc' = "runAssistant"
  /\ UNCHANGED <<heap, tasks, learnings, metrics, call, run, ret>>
  /\ UNCHANGED <<now, ops, calls, clientVars, procs>>

\* `await addMessage(session.threadId, userMessage)`, outside the try block
AddMessage ==
  /\ pc = "addMessage"
  /\ \/ /\ threads' = [threads EXCEPT ![Sess.threadId] =
                         Append(@, [role |-> "user", content |-> call.msg])]
        /\ activeSession' = <<[Sess EXCEPT !.messages = Append(@, call.msg),
                                           !.status = "processing"]>>
        /\ pc' = "runAssistant"
        /\ UNCHANGED <<heap, tasks, learnings, metrics, call, run, ret>>
     \/ /\ PMRaises("network", "addMessage")
        /\ UNCHANGED threads
  /\ UNCHANGED <<now, ops, calls, clientVars, procs>>

\* `await runAssistant(session.threadId, additionalInstructions)` resolves or
\* rejects; resolved, waitForRunCompletion reads startTime = Date.now(), its
\* loop condition holds (timeoutMs > 0) and the first runs.retrieve is issued
RunAssistant ==
  /\ pc = "runAssistant"
  /\ \/ /\ run' = [status |-> "queued", startTime |-> now, batch |-> <<>>, rounds |-> 0]
        /\ activeSession' = <<[Sess EXCEPT !.runId = @ + 1]>>
        /\ pc' = "poll"
        /\ UNCHANGED <<heap, tasks, learnings, metrics, call, ret>>
     \/ \E rnd \in RandInputs :
          PMCatches(Reg, Learn, Sess, "network", "runAssistant", "none", rnd)
  /\ UNCHANGED <<now, threads, ops, calls, clientVars, procs>>

\* the remote service moves the run on; a completed run has appended the
\* assistant's reply to the thread
RemoteRun ==
  /\ pc \in {"poll", "setTimeout"}
  /\ run.status \in {"queued", "in_progress"}
  /\ \/ /\ run.status = "queued"
        /\ run' = [run EXCEPT !.status = "in_progress"]
        /\ UNCHANGED threads
     \/ /\ \E status \in {"failed", "cancelled", "expired"} :
             run' = [run EXCEPT !.status = status]
        /\ UNCHANGED threads
     \/ /\ \E batch \in AgentBatchInputs :
             /\ Len(heap) + Allocations(batch) <= MaxTasks
             /\ run.rounds < MaxRounds
             /\ run' = [run EXCEPT !.status = "requires_action", !.batch = batch,
                                   !.rounds = @ + 1]
        /\ UNCHANGED threads
     \/ /\ run' = [run EXCEPT !.status = "completed"]
        /\ \E reply \in AssistantReplies :
             threads' = [threads EXCEPT ![Sess.threadId] =
                           Append(@, [role |-> "assistant", content |-> reply])]
  /\ UNCHANGED <<heap, tasks, now, activeSession, learnings, metrics, pc, call, ret, ops, calls, clientVars, procs>>

\* Date.now() moves on while waitForRunCompletion waits for an answer or sleeps
RunTimePasses ==
  /\ pc \in {"poll", "onToolCall", "submitToolOutputs", "setTimeout"}
  /\ now < MaxClock
  /\ now' = now + 1
  /\ UNCHANGED <<heap, tasks, activeSession, threads, learnings, metrics, agentVars, ops>>

\* `await client.beta.threads.runs.retrieve(threadId, runId)` is answered, and
\* the switch on run.status, with the tool-call handler processMessage passes
Poll ==
  /\ pc = "poll"
  /\ \E rnd \in RandInputs :
       \/ PMCatches(Reg, Learn, Sess, "network", "retrieve", "none", rnd)
       \/ /\ run.status = "completed"
          /\ pc' = "getMessages"
          /\ UNCHANGED <<heap, tasks, activeSession, learnings, metrics, call, run, ret>>
       \/ /\ run.status \in {"failed", "cancelled", "expired"}
          /\ PMCatches(Reg, Learn, Sess, RunError(run.status), "run", run.status, rnd)
       \/ /\ run.status = "requires_action"
          /\ \E rnds \in [1..Len(run.batch) -> RandInputs] :
               LET S == handleToolCalls(ToolState(Reg, Sess.tasks, Learn),
                                        WithIds(run.batch), now, rnds)
               IN /\ SetReg(S.R)
                  /\ learnings' = S.L.learnings
                  /\ metrics' = S.L.metrics
                  /\ activeSession' = <<[Sess EXCEPT !.tasks = S.sessionTasks]>>
                  /\ pc' = IF S.raised THEN "onToolCall" ELSE "submitToolOutputs"
                  /\ UNCHANGED <<call, run, ret>>
       \/ /\ run.status \in {"queued", "in_progress"}
          /\ pc' = "setTimeout"
          /\ UNCHANGED <<heap, tasks, activeSession, learnings, metrics, call, run, ret>>
  /\ UNCHANGED <<now, threads, ops, calls, clientVars, procs>>

\* `await onToolCall(toolCalls)` rejects with the error handleToolCalls
\* raised, or the runs.submitToolOutputs request is answered: resolved, the
\* loop sleeps
SubmitToolOutputs ==
  /\ pc \in {"onToolCall", "submitToolOutputs"}
  /\ \E rnd \in RandInputs :
       IF pc = "onToolCall"
       THEN PMCatches(Reg, Learn, Sess, "Unexpected token", "toolCall", "none", rnd)
       ELSE \/ /\ run' = [run EXCEPT !.status = "queued", !.batch = <<>>]
               /\ pc' = "setTimeout"
               /\ UNCHANGED <<heap, tasks, activeSession, learnings, metrics, call, ret>>
            \/ PMCatches(Reg, Learn, Sess, "network", "submitToolOutputs", "none", rnd)
  /\ UNCHANGED <<now, threads, ops, calls, clientVars, procs>>

\* the timer of `await new Promise((resolve) => setTimeout(resolve,
\* pollIntervalMs))` fires and the loop condition is evaluated: the next
\* runs.retrieve is issued, or 'Run timed out' is thrown
PollSetTimeout ==
  /\ pc = "setTimeout"
  /\ IF now - run.startTime < timeoutMs
     THEN /\ pc' = "poll"
          /\ UNCHANGED <<heap, tasks, activeSession, learnings, metrics, call, run, ret>>
     ELSE \E rnd \in RandInputs :
            PMCatches(Reg, Learn, Sess, "Run timed out", "run", "timeout", rnd)
  /\ UNCHANGED <<now, threads, ops, calls, clientVars, procs>>

\* `await getThreadMessages(session.threadId, 1)` and the rest of the try block
GetMessages ==
  /\ pc = "getMessages"
  /\ \/ \E rnd \in RandInputs :
          PMCatches(Reg, Learn, Sess, "network", "getThreadMessages", "completed", rnd)
     \/ LET messages == getThreadMessages(threads[Sess.threadId], 1)
        IN IF messages = <<>>
           THEN PMReturns(Reg, Learn, [Sess EXCEPT !.status = "active"],
                          <<"Keine Antwort erhalten.">>, <<>>, "none", "completed")
           ELSE LET response == messages[Len(messages)]
                IN PMReturns(Reg, recordCompletionTime(Learn),
                             [Sess EXCEPT !.messages = Append(@, response.content),
                                          !.status = "active"],
                             <<response.content>>, <<>>, "none", "completed")
  /\ UNCHANGED <<now, threads, ops, calls, clientVars, procs>>

\* params of the createTask calls of the agent specification
DefaultParams ==
  [description : {"d"}, priority : {Undefined}, category : {Undefined},
   parentTaskId : {NoId}, dependencies : {<<>>}]

CreateDefaultTask ==
  /\ pc = "idle"
  /\ CreateTaskFrom(DefaultParams)

NextAgent ==
  \/ Tick
  \/ CreateDefaultTask
  \/ StartProcessMessage
  \/ StartExecuteTask
  \/ StartRunTask
  \/ CreateThreadAnswers
  \/ AwaitSession
  \/ AddMessage
  \/ RunAssistant
  \/ RemoteRun
  \/ Poll
  \/ RunTimePasses
  \/ SubmitToolOutputs
  \/ PollSetTimeout
  \/ GetMessages
  \/ ExecuteTaskContinues

SpecAgent == Init /\ [][NextAgent]_vars

\* tool-call batches handled on a session that getSession() created
NextTools ==
  \/ Tick
  \/ CreatePlainTask
  \/ GetSession
  \/ CreateThreadAnswers
  \/ AwaitSession
  \/ HandleToolCalls

\* the credential may be missing, and getSession() then throws
InitTools == \E key \in {"", "sk"} : Loaded(key, "")

SpecTools == InitTools /\ [][NextTools]_vars

----------------------------------------------------------------------------
\* processMessage calls one after another on the same session

\* processMessage calls of one behaviour
MaxMessages == 2

\* processMessage(userMessage) is called, also after an earlier call has ended
StartNextMessage ==
  /\ pc = "idle"
  /\ calls < MaxMessages
  /\ calls' = calls + 1
  /\ EnterGetSession([NoCall EXCEPT !.op = "processMessage", !.frame = "processMessage",
                                       !.msg = "u1"])
  /\ UNCHANGED <<heap, tasks, now, activeSession, threads, learnings, metrics, run, ops,
                 procs>>

NextStatus ==
  \/ StartNextMessage
  \/ RecordCompletionTime
  \/ CreateThreadAnswers
  \/ AwaitSession
  \/ AddMessage
  \/ RunAssistant
  \/ RemoteRun
  \/ Poll
  \/ RunTimePasses
  \/ SubmitToolOutputs
  \/ PollSetTimeout
  \/ GetMessages

SpecStatus == Init /\ [][NextStatus]_vars

----------------------------------------------------------------------------
\* endSession between the calls that use the session.  A deleted thread keeps
\* its place in `threads`: the remote service never hands out its identifier
\* again.  `requests` holds the threads.del requests issued.

\* endSession calls of one behaviour
MaxEnds == 2

\* what endSession returns; `failure` names the request whose error it ignored
EndSessionReturns(failure) ==
  [NoRet EXCEPT !.kind = "return", !.op = "endSession", !.failure = failure]

\* endSession() is called: with no session it returns at once, otherwise it
\* calls deleteThread(activeSession.threadId), which gets the client and
\* issues the threads.del request before the call yields
StartEndSession ==
  /\ pc = "idle"
  /\ ops < MaxEnds
  /\ ops' = ops + 1
  /\ IF activeSession = NoSession
     THEN /\ ret' = EndSessionReturns("none")
          /\ UNCHANGED <<pc, call, openaiClient, requests>>
     ELSE LET client == getOpenAIClient(apiKey, openaiClient)
          IN /\ openaiClient' = client.openaiClient
             /\ requests' = IF client.raised THEN requests
                            ELSE requests \cup {<<"deleteThread", Sess.threadId>>}
             /\ call' = [NoCall EXCEPT !.op = "endSession",
                                       !.frame = IF client.raised THEN "getOpenAIClient"
                                                 ELSE "deleteThread"]
             /\ pc' = "deleteThread"
             /\ UNCHANGED ret
  /\ UNCHANGED <<heap, tasks, now, activeSession, threads, learnings, metrics, run, calls,
                 apiKey, vectorStoreId, procs>>

\* an endSession without the try block around deleteThread
EndSessionDeleteThread_Uncaught ==
  /\ pc = "deleteThread"
  /\ \/ /\ activeSession' = NoSession
        /\ ret' = EndSessionReturns("none")
     \/ /\ ret' = [NoRet EXCEPT !.kind = "raise", !.op = "endSession",
                                 !.text = <<"network">>, !.failure = "deleteThread"]
        /\ UNCHANGED activeSession
  /\ pc' = "idle"
  /\ call' = NoCall
  /\ UNCHANGED <<heap, tasks, now, threads, learnings, metrics, run, calls, clientVars, procs,
                 ops>>

\* `await deleteThread(activeSession.threadId)` resolves or rejects; the catch
\* block ignores the error, and activeSession = null follows in both cases
EndSessionDeleteThread ==
  /\ pc = "deleteThread"
  /\ IF call.frame = "getOpenAIClient"
     THEN ret' = EndSessionReturns("getOpenAIClient")
     ELSE \E failure \in {"none", "deleteThread"} : ret' = EndSessionReturns(failure)
  /\ activeSession' = NoSession
  /\ pc' = "idle"
  /\ call' = NoCall
  /\ UNCHANGED <<heap, tasks, now, threads, learnings, metrics, run, calls, clientVars, procs,
                 ops>>

NextEnd ==
  \/ GetSession
  \/ StartNextMessage
  \/ CreateThreadAnswers
  \/ AwaitSession
  \/ AddMessage
  \/ RunAssistant
  \/ RemoteRun
  \/ Poll
  \/ RunTimePasses
  \/ SubmitToolOutputs
  \/ PollSetTimeout
  \/ GetMessages
  \/ StartEndSession
  \/ EndSessionDeleteThread

SpecEnd == Init /\ [][NextEnd]_vars

----------------------------------------------------------------------------
\* waitForRunCompletion (client part of agent.ts), one step per await.  The
\* clock of this specification counts poll intervals.

\* the variables waitForRunCompletion never touches
storeVars == <<heap, tasks, activeSession, threads, learnings, metrics, ops, procs>>

\* the positions of a waitForRunCompletion call: the while condition and the
\* four awaits of the loop
WaitPositions == {"while", "retrieve", "onToolCall", "submitToolOutputs", "setTimeout"}

\* required_action.submit_tool_outputs.tool_calls of a run: the call identifiers
ToolCallBatches == {<<"c1">>, <<"c1", "c2">>}

\* results[tc.id] of the record onToolCall resolves with: no such key, the
\* empty string or a text
HandlerOutputs == {Undefined, "", "out"}

\* run.last_error?.message of a failed run: none, the empty string or a text
ErrorMessages == {Undefined, "", "quota"}

\* run.required_action?.type of a run that requires an action
RequiredActions == {"submit_tool_outputs", "other"}

\* the run as the remote service holds it when waitForRunCompletion starts;
\* `action` is the type of its required action and `outputs` are the
\* tool-output submissions the service has received
QueuedRun ==
  [status |-> "queued", batch |-> <<>>, action |-> Undefined, error |-> Undefined,
   outputs |-> <<>>]

\* `run.required_action?.type === 'submit_tool_outputs' && onToolCall`
HandlesToolCalls(seen, onToolCall) ==
  seen.action = "submit_tool_outputs" /\ onToolCall

\* the statuses after which the service no longer changes the run
TerminalStatuses == {"completed", "failed", "cancelled", "expired"}

\* the Error of the switch for a run seen failed, cancelled or expired;
\* `run.last_error?.message || 'Unknown error'` replaces a missing and an
\* empty message
WaitError(seen) ==
  CASE seen.status = "failed" ->
         <<"Run failed", IF seen.error \in {Undefined, ""} THEN "Unknown error"
                         ELSE seen.error>>
    [] seen.status = "cancelled" -> <<"Run was cancelled">>
    [] seen.status = "expired" -> <<"Run expired">>

\* toolCalls.map((tc) => ({ tool_call_id: tc.id,
\*                          output: results[tc.id] || 'Tool execution completed' }))
ToolOutputs(toolCalls, results) ==
  [i \in 1..Len(toolCalls) |->
     [tool_call_id |-> toolCalls[i],
      output |-> IF results[toolCalls[i]] \in {Undefined, ""}
                 THEN "Tool execution completed"
                 ELSE results[toolCalls[i]]]]

\* the call ends: it throws the Error `text` or returns the run it retrieved,
\* written <<"run", status>>; `runEnd` is the status the last
\* poll saw ("timeout" when the while condition failed, "none" when no poll
\* resolved) and `failure` the await that rejected
WaitEnds(kind, text, runEnd, failure) ==
  /\ ret' = [NoRet EXCEPT !.kind = kind, !.op = "waitForRunCompletion", !.text = text,
                          !.runEnd = runEnd, !.failure = failure]
  /\ pc' = "idle"
  /\ call' = NoCall

\* waitForRunCompletion(threadId, runId, onToolCall) is called, with or without
\* a handler: getOpenAIClient() and startTime = Date.now()
StartWait ==
  /\ pc = "idle"
  /\ calls < MaxCalls
  /\ calls' = calls + 1
  /\ openaiClient' = getOpenAIClient(apiKey, openaiClient).openaiClient
  /\ IF getOpenAIClient(apiKey, openaiClient).raised
     THEN /\ WaitEnds("raise", <<"OPENAI_API_KEY is not configured">>, "none", "none")
          /\ UNCHANGED run
     ELSE /\ \E handler \in BOOLEAN :
               call' = [op |-> "waitForRunCompletion", onToolCall |-> handler,
                        startTime |-> now, seen |-> QueuedRun, results |-> <<>>,
                        handled |-> 0]
          /\ run' = QueuedRun
          /\ pc' = "while"
          /\ UNCHANGED ret
  /\ UNCHANGED <<storeVars, now, apiKey, vectorStoreId, requests>>

\* while (Date.now() - startTime < timeoutMs): the loop goes on with
\* runs.retrieve, or ends and 'Run timed out' is thrown
WaitWhile ==
  /\ pc = "while"
  /\ IF now - call.startTime < timeoutMs
     THEN /\ pc' = "retrieve"
          /\ requests' = requests \cup {"runs.retrieve"}
          /\ UNCHANGED <<call, ret>>
     ELSE /\ WaitEnds("raise", <<"Run timed out">>, "timeout", "none")
          /\ UNCHANGED requests
  /\ UNCHANGED <<storeVars, now, run, calls, apiKey, vectorStoreId, openaiClient>>

\* `await client.beta.threads.runs.retrieve(threadId, runId)` rejects, or
\* resolves with the run as it is now, and the switch on run.status
WaitRetrieve ==
  /\ pc = "retrieve"
  /\ \/ WaitEnds("raise", <<"network">>, call.seen.status, "retrieve")
     \/ CASE run.status = "completed" -> WaitEnds("return", <<"run", run.status>>, run.status, "none")
          [] run.status \in {"failed", "cancelled", "expired"} ->
               WaitEnds("raise", WaitError(run), run.status, "none")
          [] run.status = "requires_action" /\ HandlesToolCalls(run, call.onToolCall) ->
               /\ call' = [call EXCEPT !.seen = run]
               /\ pc' = "onToolCall"
               /\ UNCHANGED ret
          [] OTHER ->
               /\ call' = [call EXCEPT !.seen = run]
               /\ pc' = "setTimeout"
               /\ UNCHANGED ret
  /\ UNCHANGED <<storeVars, now, run, calls, clientVars>>

\* `await onToolCall(toolCalls)` resolves with a record of results or rejects
WaitOnToolCall ==
  /\ pc = "onToolCall"
  /\ \/ WaitEnds("raise", <<"handler">>, call.seen.status, "onToolCall")
        /\ UNCHANGED requests
     \/ /\ \E results \in [Range(call.seen.batch) -> HandlerOutputs] :
             call' = [call EXCEPT !.results = results, !.handled = @ + 1]
        /\ pc' = "submitToolOutputs"
        /\ requests' = requests \cup {"runs.submitToolOutputs"}
        /\ UNCHANGED ret
  /\ UNCHANGED <<storeVars, now, run, calls, apiKey, vectorStoreId, openaiClient>>

\* `await client.beta.threads.runs.submitToolOutputs(...)` resolves, the
\* service then holding the outputs and the run going on, or rejects
WaitSubmitToolOutputs ==
  /\ pc = "submitToolOutputs"
  /\ \/ /\ WaitEnds("raise", <<"network">>, call.seen.status, "submitToolOutputs")
        /\ UNCHANGED run
     \/ /\ run.status = "requires_action"
        /\ run' = [run EXCEPT !.status = "queued",
                              !.outputs = Append(@, ToolOutputs(call.seen.batch,
                                                                call.results))]
        /\ pc' = "setTimeout"
        /\ UNCHANGED <<call, ret>>
  /\ UNCHANGED <<storeVars, now, calls, clientVars>>

\* a loop whose pause takes no time
WaitSetTimeout_NoDelay ==
  /\ pc = "setTimeout"
  /\ pc' = "while"
  /\ UNCHANGED <<storeVars, now, call, run, ret, calls, clientVars>>

\* `await new Promise((resolve) => setTimeout(resolve, pollIntervalMs))`
WaitSetTimeout ==
  /\ pc = "setTimeout"
  /\ now' = now + pollIntervalMs
  /\ pc' = "while"
  /\ UNCHANGED <<storeVars, call, run, ret, calls, clientVars>>

\* the remote service moves the run on while the call waits; it requests tool
\* calls at most MaxPolls times
RemoteStatus ==
  /\ pc \in WaitPositions
  /\ \/ /\ run.status = "queued"
        /\ run' = [run EXCEPT !.status = "in_progress"]
     \/ /\ run.status = "in_progress"
        /\ \/ \E status \in {"completed", "cancelled", "expired"} :
                run' = [run EXCEPT !.status = status]
           \/ \E error \in ErrorMessages :
                run' = [run EXCEPT !.status = "failed", !.error = error]
           \/ /\ Len(run.outputs) < MaxPolls
              /\ \E batch \in ToolCallBatches, action \in RequiredActions :
                   run' = [run EXCEPT !.status = "requires_action", !.batch = batch,
                                      !.action = action]
     \/ /\ run.status = "requires_action"
        /\ run' = [run EXCEPT !.status = "expired"]
  /\ UNCHANGED <<storeVars, now, pc, call, ret, calls, clientVars>>

\* time passes while an await of the call is pending
TimePasses ==
  /\ pc \in WaitPositions \ {"while"}
  /\ now - call.startTime < timeoutMs
  /\ now' = now + 1
  /\ UNCHANGED <<storeVars, pc, call, run, ret, calls, clientVars>>

NextWait ==
  \/ StartWait
  \/ WaitWhile
  \/ WaitRetrieve
  \/ WaitOnToolCall
  \/ WaitSubmitToolOutputs
  \/ WaitSetTimeout
  \/ RemoteStatus
  \/ TimePasses

SpecWait == Init /\ [][NextWait]_vars

\* every remote call and every handler call comes back and the pause of the
\* loop ends; the remote service and the clock between the pauses owe nothing
SpecWaitLive ==
  /\ SpecWait
  /\ WF_vars(WaitWhile)
  /\ WF_vars(WaitRetrieve)
  /\ WF_vars(WaitOnToolCall)
  /\ WF_vars(WaitSubmitToolOutputs)
  /\ WF_vars(WaitSetTimeout)

----------------------------------------------------------------------------
\* getSession (agent.ts) under several calls.  Every call of getSession,
\* processMessage, executeTask and runTask starts with `await getSession()`,
\* runTask after it has created its task; a call in flight is
\* [op, at, threadId, concurrent, created, handle]: `at` is its position ("createThread"
\* while the request is pending, "runTask" and "executeTask" while runTask is
\* about to continue with the session it got, then "done"), `threadId` the
\* thread of the session it got (0 before, and when createThread rejected),
\* `concurrent` whether it ran while another call did, `handle` the task
\* object runTask created (0 for the other calls).

\* the calls started in one behaviour
MaxCallers == 3

\* the exported functions that begin with getSession()
SessionCallers == {"getSession", "processMessage", "executeTask", "runTask"}

\* the variables the session calls never touch
sessionFrame == <<now, learnings, metrics, pc, call, run, ret, ops, calls, apiKey, vectorStoreId, requests>>

\* the calls that have not ended their part with the session yet
InFlight == {i \in 1..Len(procs) : procs[i].at # "done"}

\* the calls in flight, marked as concurrent when another call starts
Overlapped ==
  [i \in 1..Len(procs) |->
     IF i \in InFlight THEN [procs[i] EXCEPT !.concurrent = TRUE] ELSE procs[i]]

\* runTask creates its task before it asks for the session; the other
\* functions leave the registry alone
CallerCreatesTask(op, rnd) ==
  IF op = "runTask"
  THEN /\ Len(heap) < MaxTasks
       /\ SetReg(createTask(Reg,
            [description |-> "d", priority |-> "medium", category |-> "development",
             parentTaskId |-> NoId, dependencies |-> <<>>], now, rnd))
  ELSE /\ rnd = 1
       /\ UNCHANGED <<heap, tasks>>

\* the call a function starts: with a session it goes on with it, without one
\* initializeSession() runs up to `await createThread()`, where
\* getOpenAIClient() has thrown, which ends the call with no session, or
\* threads.create is in flight; `created` tells that the call's own
\* createThread has made the thread of its session
NewCaller(op, fresh, handle) ==
  [op |-> op,
   at |-> IF fresh
          THEN IF getOpenAIClient(apiKey, openaiClient).raised THEN "done"
               ELSE "createThread"
          ELSE IF op = "runTask" THEN "runTask" ELSE "done",
   threadId |-> IF fresh THEN 0 ELSE Sess.threadId,
   concurrent |-> InFlight # {},
   created |-> FALSE,
   handle |-> handle]

\* a getSession that initializes a session whether or not one is active
StartCaller_Always ==
  /\ Len(procs) < MaxCallers
  /\ \E op \in SessionCallers, rnd \in RandInputs :
       /\ CallerCreatesTask(op, rnd)
       /\ procs' = Append(Overlapped,
                          NewCaller(op, TRUE, IF op = "runTask" THEN NewHandle(Reg) ELSE 0))
  /\ openaiClient' = getOpenAIClient(apiKey, openaiClient).openaiClient
  /\ UNCHANGED <<sessionFrame, activeSession, threads>>

\* one of the functions is called and runs up to its first pending await:
\* runTask has created its task; getSession() returns the active session, or
\* calls initializeSession() when there is none
StartCaller ==
  /\ Len(procs) < MaxCallers
  /\ \E op \in SessionCallers, rnd \in RandInputs :
       /\ CallerCreatesTask(op, rnd)
       /\ procs' = Append(Overlapped,
                          NewCaller(op, activeSession = NoSession,
                                    IF op = "runTask" THEN NewHandle(Reg) ELSE 0))
  /\ openaiClient' = IF activeSession = NoSession
                     THEN getOpenAIClient(apiKey, openaiClient).openaiClient
                     ELSE openaiClient
  /\ UNCHANGED <<sessionFrame, activeSession, threads>>

\* initializeSession() is called by the user of the module: it runs up to
\* `await createThread()` whether or not a session is active
InitializeSession ==
  /\ Len(procs) < MaxCallers
  /\ procs' = Append(Overlapped, NewCaller("initializeSession", TRUE, 0))
  /\ openaiClient' = getOpenAIClient(apiKey, openaiClient).openaiClient
  /\ UNCHANGED <<sessionFrame, heap, tasks, activeSession, threads>>

\* the calls that continue as soon as the running code yields; the answer of
\* a request is delivered after them
Continuing == {i \in 1..Len(procs) : procs[i].at \in {"runTask", "executeTask"}}

\* `await createThread()` of call i resolves, the service having created a
\* thread, and initializeSession assigns activeSession; or it rejects
CallerCreatesThread(i) ==
  /\ i \in 1..Len(procs)
  /\ procs[i].at = "createThread"
  /\ Continuing = {}
  /\ \/ /\ threads' = Append(threads, <<>>)
        /\ activeSession' = <<NewSession(Len(threads) + 1)>>
        /\ procs' = [procs EXCEPT ![i].at = IF procs[i].op = "runTask" THEN "runTask"
                                            ELSE "done",
                                  ![i].threadId = Len(threads) + 1,
                                  ![i].created = TRUE]
     \/ /\ procs' = [procs EXCEPT ![i].at = "done"]
        /\ UNCHANGED <<activeSession, threads>>
  /\ UNCHANGED <<sessionFrame, heap, tasks, openaiClient>>

CreatesThread == \E i \in 1..MaxCallers : CallerCreatesThread(i)

\* runTask continues after `const session = await getSession()`:
\* session.tasks.push(task), and executeTask(task.id) runs up to its own
\* `await getSession()`
RunTaskPushes(i) ==
  /\ i \in 1..Len(procs)
  /\ procs[i].at = "runTask"
  /\ activeSession' = <<[Sess EXCEPT !.tasks = Append(@, procs[i].handle)]>>
  /\ procs' = [procs EXCEPT ![i].at = "executeTask"]
  /\ UNCHANGED <<sessionFrame, heap, tasks, threads, openaiClient>>

\* executeTask continues after `await getSession()`: the task is found in
\* session.tasks, setTaskStatus(taskId, 'in-progress'), and processMessage
\* runs up to its `await getSession()`
RunTaskExecutes(i) ==
  /\ i \in 1..Len(procs)
  /\ procs[i].at = "executeTask"
  /\ SetReg(setTaskStatus(Reg, heap[procs[i].handle].id, "in-progress", now))
  /\ procs' = [procs EXCEPT ![i].at = "done"]
  /\ UNCHANGED <<sessionFrame, activeSession, threads, openaiClient>>

RunTaskContinues ==
  \E i \in 1..MaxCallers : RunTaskPushes(i) \/ RunTaskExecutes(i)

NextSession ==
  \/ StartCaller
  \/ InitializeSession
  \/ CreatesThread
  \/ RunTaskContinues

\* the credential may be missing
InitSession == \E key \in {"", "sk"} : Loaded(key, "")

SpecSession == InitSession /\ [][NextSession]_vars

----------------------------------------------------------------------------
\* The registry calls with the value each one returns

\* Registry calls of one behaviour
MaxRegistryCalls == 2

\* the keys of a TaskContext whose values addTaskContext concatenates
ContextLists == {"relevantFiles", "relevantDocs", "codebasePatterns"}

\* Partial<TaskContext> arguments: a function from the keys present
ContextInputs ==
  UNION {[keys -> {<<"f">>}] : keys \in SUBSET {"relevantFiles", "sessionHistory"}}

\* addTaskContext(taskId, context): a task created by createTask has no
\* context key until the first call sets it
addTaskContext(R, taskId, context, ts) ==
  LET h == MapGet(R, taskId)
      task == R.heap[h]
      old == IF "context" \in DOMAIN task THEN task["context"] ELSE <<>>
      list(c, k) == IF k \in DOMAIN c THEN c[k] ELSE <<>>
      merged == [k \in DOMAIN old \cup DOMAIN context \cup ContextLists |->
                   IF k \in ContextLists THEN list(old, k) \o list(context, k)
                   ELSE IF k \in DOMAIN context THEN context[k]
                   ELSE old[k]]
  IN IF h = 0 THEN R
     ELSE [R EXCEPT !.heap[h] =
             [f \in DOMAIN task \cup {"context"} |->
                IF f = "context" THEN merged
                ELSE IF f = "updatedAt" THEN ts
                ELSE task[f]]]

\* `const task = tasks.get(taskId); if (!task) return undefined; ... return task`:
\* the value updateTask, setTaskStatus, addTaskContext and completeTask return,
\* <<h>> for the task of handle h and <<>> for undefined
TasksGet(R, taskId) ==
  IF MapGet(R, taskId) = 0 THEN <<>> ELSE <<MapGet(R, taskId)>>

\* every identifier a task ever had, deleted or not, and one no task ever had
EverIds == {heap[h].id : h \in 1..Len(heap)} \cup {GhostId}

\* one registry call: the registry afterwards and the value returned, which
\* is a task or undefined (`text`) or, for deleteTask, a boolean (`success`)
RegistryCall(op, taskId, R, task, bool) ==
  /\ ops < MaxRegistryCalls
  /\ ops' = ops + 1
  /\ SetReg(R)
  /\ ret' = [NoRet EXCEPT !.kind = "return", !.op = op, !.taskId = taskId,
                          !.text = task, !.success = bool]
  /\ UNCHANGED <<now, activeSession, threads, learnings, metrics, pc, call, run, calls,
                 clientVars, procs>>

CallUpdateTask ==
  \E id \in EverIds, updates \in UpdateInputs :
    RegistryCall("updateTask", id, updateTask(Reg, id, updates, now), TasksGet(Reg, id),
                 FALSE)

CallSetTaskStatus ==
  \E id \in EverIds, status \in TaskStatus :
    RegistryCall("setTaskStatus", id, setTaskStatus(Reg, id, status, now),
                 TasksGet(Reg, id), FALSE)

CallAddTaskContext ==
  \E id \in EverIds, context \in ContextInputs :
    RegistryCall("addTaskContext", id, addTaskContext(Reg, id, context, now),
                 TasksGet(Reg, id), FALSE)

CallCompleteTask ==
  \E id \in EverIds, success \in BOOLEAN :
    RegistryCall("completeTask", id,
                 completeTask(Reg, id, [success |-> success, summary |-> "s"], now),
                 TasksGet(Reg, id), FALSE)

CallDeleteTask ==
  \E id \in EverIds :
    RegistryCall("deleteTask", id, deleteTask(Reg, id).R, <<>>, deleteTask(Reg, id).result)

NextRegistry ==
  \/ Tick
  \/ CreateTransferTask
  \/ CallUpdateTask
  \/ CallSetTaskStatus
  \/ CallAddTaskContext
  \/ CallCompleteTask
  \/ CallDeleteTask

SpecRegistry == Init /\ [][NextRegistry]_vars

----------------------------------------------------------------------------
\* Tasks ready for execution

\* a getPendingReadyTasks that takes any dependency still in the registry as done
getPendingReadyTasks_AnyStatus(R) ==
  LET ready(h) == \A i \in 1..Len(R.heap[h].dependencies) :
                    MapGet(R, R.heap[h].dependencies[i]) # 0
  IN SelectSeq(listTasks(R, [NoFilters EXCEPT !.status = "pending"]), ready)

\* getPendingReadyTasks(): the handles of the tasks returned, in order; an
\* absent dependency list is the empty list
getPendingReadyTasks(R) ==
  LET completed(depId) ==
        LET dep == MapGet(R, depId)
        IN dep # 0 /\ R.heap[dep].status = "completed"
      ready(h) == \A i \in 1..Len(R.heap[h].dependencies) :
                    completed(R.heap[h].dependencies[i])
  IN SelectSeq(listTasks(R, [NoFilters EXCEPT !.status = "pending"]), ready)

\* the registry under createTask (with parents and dependencies),
\* setTaskStatus and deleteTask
NextReady ==
  \/ Tick
  \/ CreateTask
  \/ CallSetTaskStatus
  \/ CallDeleteTask

SpecReady == Init /\ [][NextReady]_vars

----------------------------------------------------------------------------
\* The functions of the remote client (client part of agent.ts), with and
\* without a configured credential and vector store.  A function runs up to
\* its request, which stays pending while other functions are called, and
\* continues when the request is answered; a pending request is
\* [op, threadId, content].

\* client calls in one behaviour
MaxRequests == 4
\* requests pending at the same time
MaxPending == 2

\* the credential and the vector store may be missing
InitClient == \E key \in {"", "sk"}, vs \in {"", "vs"} : Loaded(key, vs)

\* the variables the client functions never touch
clientFrame == <<heap, tasks, now, activeSession, learnings, metrics, calls, apiKey,
                 vectorStoreId>>

\* what a client function answers: it throws the Error `text` or returns `text`
Answer(kind, op, text) ==
  [NoRet EXCEPT !.kind = kind, !.op = op, !.text = text]

\* `const client = getOpenAIClient()` of a client function: it throws and the
\* function rejects with that error at once, or the function goes on
ClientEnters(op, goesOn) ==
  /\ ops < MaxRequests
  /\ ops' = ops + 1
  /\ openaiClient' = getOpenAIClient(apiKey, openaiClient).openaiClient
  /\ IF getOpenAIClient(apiKey, openaiClient).raised
     THEN /\ ret' = Answer("raise", op, <<"OPENAI_API_KEY is not configured">>)
          /\ UNCHANGED <<requests, procs>>
     ELSE goesOn
  /\ UNCHANGED <<clientFrame, threads, run, pc, call>>

\* the function issues `request` and waits for its answer
ClientRequests(op, request, threadId, content) ==
  /\ Len(procs) < MaxPending
  /\ requests' = requests \cup {request}
  /\ procs' = Append(procs, [op |-> op, threadId |-> threadId, content |-> content])
  /\ UNCHANGED ret

\* the function ends without a request
ClientEnds(kind, op, text) ==
  /\ ret' = Answer(kind, op, text)
  /\ UNCHANGED <<requests, procs>>

\* getOpenAIClient(), called by the user of the module
GetOpenAIClient ==
  ClientEnters("getOpenAIClient", ClientEnds("return", "getOpenAIClient", <<"client">>))

\* createThread()
CreateThread ==
  ClientEnters("createThread", ClientRequests("createThread", "threads.create", 0, ""))

\* addMessage(threadId, content, role)
ClientAddMessage ==
  ClientEnters("addMessage",
               \E threadId \in 1..Len(threads), content \in UserMessages :
                 ClientRequests("addMessage", "messages.create", threadId, content))

\* runAssistant(threadId, instructions)
ClientRunAssistant ==
  ClientEnters("runAssistant",
               \E threadId \in 1..Len(threads) :
                 ClientRequests("runAssistant", "runs.create", threadId, ""))

\* getThreadMessages(threadId, limit)
ClientGetThreadMessages ==
  ClientEnters("getThreadMessages",
               \E threadId \in 1..Len(threads) :
                 ClientRequests("getThreadMessages", "messages.list", threadId, ""))

\* deleteThread(threadId)
DeleteThread ==
  ClientEnters("deleteThread",
               \E threadId \in 1..Len(threads) :
                 ClientRequests("deleteThread", "threads.del", threadId, ""))

\* getVectorStoreSyncStatus(): without a vector store it returns the status
\* 'error' and issues no request
GetVectorStoreSyncStatus ==
  ClientEnters("getVectorStoreSyncStatus",
               IF vectorStoreId = ""
               THEN ClientEnds("return", "getVectorStoreSyncStatus", <<"status", "error">>)
               ELSE ClientRequests("getVectorStoreSyncStatus", "vectorStores.retrieve",
                                   0, ""))

\* uploadFile(content, filename)
UploadFile ==
  ClientEnters("uploadFile", ClientRequests("uploadFile", "files.create", 0, ""))

\* addFileToVectorStore(fileId): without a vector store it throws
AddFileToVectorStore ==
  ClientEnters("addFileToVectorStore",
               IF vectorStoreId = ""
               THEN ClientEnds("raise", "addFileToVectorStore",
                               <<"Vector store ID not configured">>)
               ELSE ClientRequests("addFileToVectorStore", "vectorStores.files.create",
                                   0, ""))

\* listVectorStoreFiles(): without a vector store it returns []
ListVectorStoreFiles ==
  ClientEnters("listVectorStoreFiles",
               IF vectorStoreId = ""
               THEN ClientEnds("return", "listVectorStoreFiles", <<"files">>)
               ELSE ClientRequests("listVectorStoreFiles", "vectorStores.files.list",
                                   0, ""))

\* a thread the service has deleted: it keeps its identifier, which the
\* service gives to no later thread, and the service resolves no request on it
DeletedThread == <<[role |-> "deleted", content |-> ""]>>

\* what the service does for the request of `p` when it resolves it, and
\* what the function then returns; `run` is the run created last, which the
\* service creates while no waitForRunCompletion call polls the one before
ClientResolves(p) ==
  CASE p.op = "createThread" ->
         /\ threads' = Append(threads, <<>>)
         /\ ret' = Answer("return", p.op, <<"thread", Len(threads) + 1>>)
    [] p.op = "addMessage" ->
         /\ threads[p.threadId] # DeletedThread
         /\ threads' = [threads EXCEPT ![p.threadId] =
                          Append(@, [role |-> "user", content |-> p.content])]
         /\ ret' = Answer("return", p.op, <<"message">>)
    [] p.op = "runAssistant" ->
         /\ threads[p.threadId] # DeletedThread
         /\ pc = "idle"
         /\ run' = QueuedRun
         /\ ret' = Answer("return", p.op, <<"run">>)
         /\ UNCHANGED threads
    [] p.op = "getThreadMessages" ->
         /\ threads[p.threadId] # DeletedThread
         /\ ret' = Answer("return", p.op,
                          <<"messages", Len(getThreadMessages(threads[p.threadId], 100))>>)
         /\ UNCHANGED threads
    [] p.op = "deleteThread" ->
         /\ threads[p.threadId] # DeletedThread
         /\ threads' = [threads EXCEPT ![p.threadId] = DeletedThread]
         /\ ret' = Answer("return", p.op, <<"undefined">>)
    [] p.op = "getVectorStoreSyncStatus" ->
         /\ \E status \in {"synced", "syncing"} :
              ret' = Answer("return", p.op, <<"status", status>>)
         /\ UNCHANGED threads
    [] p.op = "uploadFile" ->
         /\ ret' = Answer("return", p.op, <<"file">>)
         /\ UNCHANGED threads
    [] p.op = "addFileToVectorStore" ->
         /\ ret' = Answer("return", p.op, <<"undefined">>)
         /\ UNCHANGED threads
    [] p.op = "listVectorStoreFiles" ->
         /\ ret' = Answer("return", p.op, <<"files">>)
         /\ UNCHANGED threads

\* waitForRunCompletion(threadId, runId, onToolCall) is called on the run
\* created last, with or without a handler: getOpenAIClient() and
\* startTime = Date.now(); the loop is that of WaitWhile
ClientWaitForRunCompletion ==
  /\ pc = "idle"
  /\ ops < MaxRequests
  /\ ops' = ops + 1
  /\ openaiClient' = getOpenAIClient(apiKey, openaiClient).openaiClient
  /\ IF getOpenAIClient(apiKey, openaiClient).raised
     THEN WaitEnds("raise", <<"OPENAI_API_KEY is not configured">>, "none", "none")
     ELSE /\ run # NoRun
          /\ \E handler \in BOOLEAN :
               call' = [op |-> "waitForRunCompletion", onToolCall |-> handler,
                        startTime |-> now, seen |-> run, results |-> <<>>,
                        handled |-> 0]
          /\ pc' = "while"
          /\ UNCHANGED ret
  /\ UNCHANGED <<clientFrame, threads, run, requests, procs>>

\* the request fails and the function throws the error of the client; the
\* catch block of getVectorStoreSyncStatus returns the status 'error' instead
ClientRejects(p) ==
  /\ ret' = IF p.op = "getVectorStoreSyncStatus"
            THEN Answer("return", p.op, <<"status", "error">>)
            ELSE Answer("raise", p.op, <<"network">>)
  /\ UNCHANGED threads

\* the pending request i is answered and its function ends
ClientAnswered(i) ==
  /\ i \in 1..Len(procs)
  /\ \/ /\ ClientResolves(procs[i])
        /\ procs[i].op # "runAssistant" => UNCHANGED run
     \/ /\ ClientRejects(procs[i])
        /\ UNCHANGED run
  /\ procs' = [k \in 1..(Len(procs) - 1) |-> IF k < i THEN procs[k] ELSE procs[k + 1]]
  /\ UNCHANGED <<clientFrame, ops, openaiClient, requests, pc, call>>

ClientAnswers == \E i \in 1..MaxPending : ClientAnswered(i)

NextClient ==
  \/ GetOpenAIClient
  \/ CreateThread
  \/ ClientAddMessage
  \/ ClientRunAssistant
  \/ ClientGetThreadMessages
  \/ DeleteThread
  \/ GetVectorStoreSyncStatus
  \/ UploadFile
  \/ AddFileToVectorStore
  \/ ListVectorStoreFiles
  \/ ClientAnswers
  \/ ClientWaitForRunCompletion
  \/ WaitWhile
  \/ WaitRetrieve
  \/ WaitOnToolCall
  \/ WaitSubmitToolOutputs
  \/ WaitSetTimeout
  \/ RemoteStatus
  \/ TimePasses

SpecClient == InitClient /\ [][NextClient]_vars

----------------------------------------------------------------------------
\* Recordings with improvement suggestions

\* the most entries the suggestion registry holds
MaxSuggestions == 7

\* the improvement texts of the recordings, in the order they come into use
ImprovementNames == <<"i1", "i2", "i3", "i4", "i5", "i6">>

\* the texts a recording chooses from: none, a text an earlier recording has
\* used, or the next text not used so far (the code compares the texts by
\* equality only, so which new text is chosen makes no difference)
ImprovementInputs ==
  LET used == {learnings[i].improvement : i \in 1..Len(learnings)} \ {Undefined}
      fresh == IF Cardinality(used) < Len(ImprovementNames)
               THEN {ImprovementNames[Cardinality(used) + 1]} ELSE {}
  IN {Undefined} \cup used \cup fresh

\* params of recordLearning
SuggestParams ==
  [taskId : {UnknownTaskId}, pattern : {<<"a">>}, outcome : {"partial"},
   feedback : {Undefined}, improvement : ImprovementInputs]

\* recordLearning(params), each call drawing a fresh random suffix
RecordSuggestion ==
  RecordLearningFrom(SuggestParams, {Len(learnings) + 1}, MaxSuggestions)

NextSuggest == RecordSuggestion

SpecSuggest == Init /\ [][NextSuggest]_vars

----------------------------------------------------------------------------
\* Import of malformed texts into the two registries

\* a text that is no JSON, as importLearnings reads it
UnparseableLearnings ==
  [parses |-> FALSE, object |-> FALSE, listed |-> FALSE, iterable |-> FALSE,
   items |-> <<>>, metrics |-> <<>>]

\* the JSON text null
NullLearnings == [UnparseableLearnings EXCEPT !.parses = TRUE]

\* the JSON text of an object whose `learnings` is a number and that has metrics
UnlistableLearnings ==
  [parses |-> TRUE, object |-> TRUE, listed |-> TRUE, iterable |-> FALSE,
   items |-> <<>>, metrics |-> <<InitialMetrics>>]

\* malformed texts for importTasks: no JSON, an object that is no array, and
\* the exported task list with a null element put last or first
MalformedTaskTexts ==
  {Unparseable, JsonObject}
  \cup {JsonArray(Append(text.items, <<>>)) : text \in TaskTexts}
  \cup {JsonArray(<<<<>>>> \o text.items) : text \in TaskTexts}

\* malformed texts for importLearnings: no JSON, null, a `learnings` value
\* that is no list, and the exported text with a null entry put last or first
MalformedLearningTexts ==
  {UnparseableLearnings, NullLearnings, UnlistableLearnings}
  \cup {[text EXCEPT !.items = Append(@, <<>>)] : text \in LearningTexts}
  \cup {[text EXCEPT !.items = <<<<>>>> \o @] : text \in LearningTexts}

ImportMalformedTasks == ImportTasksFrom(MalformedTaskTexts)

ImportMalformedLearnings == ImportLearningsFrom(MalformedLearningTexts)

NextImport ==
  \/ CreateDefaultTask
  \/ RecordTransferLearning
  \/ ExportTasks
  \/ ExportLearnings
  \/ ClearAllTasks
  \/ ClearLearnings
  \/ ImportMalformedTasks
  \/ ImportMalformedLearnings

SpecImport == Init /\ [][NextImport]_vars

----------------------------------------------------------------------------
\* Properties of the task registry

\* a step of createTask: the only operation that allocates a Task object
IsCreateStep == Len(heap') = Len(heap) + 1

\* C1: every task of the registry has one of the five statuses and one of the
\* four priorities, after any sequence of API calls and tool calls.
C1_StatusAndPriorityEnumerated ==
  \A h \in Range(tasks) :
    /\ heap[h].status \in TaskStatus
    /\ heap[h].priority \in TaskPriority

\* C6 as stated: after every createTask the created task is pending and is in
\* the result of listTasks() without filters.
C6_CreatedTaskIsListed ==
  [][IsCreateStep =>
       /\ heap'[Len(heap')].status = "pending"
       /\ Len(heap') \in Range(listTasks(Reg', NoFilters))]_vars

\* C6 amended: after every createTask the created task is pending, and it is
\* in the result of listTasks() without filters exactly when it was created
\* without a parentTaskId.
C6_CreatedTopLevelTaskIsListed ==
  [][IsCreateStep =>
       /\ heap'[Len(heap')].status = "pending"
       /\ MapGet(Reg', heap'[Len(heap')].id) = Len(heap')
       /\ (Len(heap') \in Range(listTasks(Reg', NoFilters)))
            <=> (heap'[Len(heap')].parentTaskId = NoId)]_vars

\* C6 witness: a subtask and a top-level task have been created, both still
\* pending; the list holds the top-level one only.
C6_Witness ==
  \E a \in Range(tasks), b \in Range(tasks) :
    /\ heap[a].parentTaskId = NoId /\ heap[a].status = "pending"
    /\ heap[b].parentTaskId = heap[a].id /\ heap[b].status = "pending"
    /\ a \in Range(listTasks(Reg, NoFilters))
    /\ b \notin Range(listTasks(Reg, NoFilters))

\* C7: createTask never overwrites: after every createTask the registry holds
\* one more task and every task stored before is still retrievable under its id.
C7_CreateNeverOverwrites ==
  [][IsCreateStep =>
       /\ Len(tasks') = Len(tasks) + 1
       /\ \A h \in Range(tasks) : MapGet(Reg', heap[h].id) = h]_vars

\* the updates that set the status to completed
CompletingUpdates == {u \in UpdateInputs : "status" \in DOMAIN u /\ u["status"] = "completed"}

\* 1 when the task counted under status s leaves that count, else 0
Leaves(task, s) == IF task.status = s THEN 1 ELSE 0

\* C8: setting an existing task's status to completed stamps its completion
\* time; getTaskStats then counts it under completed and no longer under
\* pending, in-progress or failed, and total is the size of the registry.
C8_CompletedIsStampedAndCounted ==
  [][\A id \in TaskIds(Reg) : \A u \in CompletingUpdates :
       (heap' = updateTask(Reg, id, u, now).heap /\ tasks' = tasks /\ ops' = ops + 1) =>
         LET h == MapGet(Reg, id)
             before == getTaskStats(Reg)
             after == getTaskStats(Reg')
         IN /\ heap'[h].status = "completed"
            /\ heap'[h].completedAt = now
            /\ after.total = Len(tasks')
            /\ after.completed = before.completed + 1 - Leaves(heap[h], "completed")
            /\ after.pending = before.pending - Leaves(heap[h], "pending")
            /\ after.inProgress = before.inProgress - Leaves(heap[h], "in-progress")
            /\ after.failed = before.failed - Leaves(heap[h], "failed")]_vars

\* C8 witness: a task was set to completed by an update (it carries no result)
\* next to a task that was not, and the statistics count exactly the former.
C8_Witness ==
  /\ ops = 1
  /\ \E a \in Range(tasks), b \in Range(tasks) :
       /\ heap[a].status = "completed" /\ heap[a].result = <<>>
       /\ heap[a].completedAt # NoDate
       /\ heap[b].status = "pending"
       /\ getTaskStats(Reg).completed = 1
       /\ getTaskStats(Reg).total = Len(tasks)

\* C9 as stated: a status filter or a priority filter returns exactly the
\* registry's tasks with that status or priority.
C9_FilterReturnsMatchingTasks ==
  /\ \A s \in TaskStatus :
       Range(listTasks(Reg, [NoFilters EXCEPT !.status = s]))
         = {h \in Range(tasks) : heap[h].status = s}
  /\ \A p \in TaskPriority :
       Range(listTasks(Reg, [NoFilters EXCEPT !.priority = p]))
         = {h \in Range(tasks) : heap[h].priority = p}

\* the tasks listTasks considers: those stored without a parentTaskId
TopLevel == {h \in Range(tasks) : heap[h].parentTaskId = NoId}

\* C9 amended: a status filter or a priority filter returns exactly the
\* registry's top-level tasks (those without parentTaskId) with that status or
\* priority, each once.
C9_FilterReturnsMatchingTopLevelTasks ==
  /\ \A s \in TaskStatus :
       LET listed == listTasks(Reg, [NoFilters EXCEPT !.status = s])
       IN /\ Range(listed) = {h \in TopLevel : heap[h].status = s}
          /\ Cardinality(Range(listed)) = Len(listed)
  /\ \A p \in TaskPriority :
       LET listed == listTasks(Reg, [NoFilters EXCEPT !.priority = p])
       IN /\ Range(listed) = {h \in TopLevel : heap[h].priority = p}
          /\ Cardinality(Range(listed)) = Len(listed)

\* C9 witness: the registry holds a completed top-level task, a pending
\* top-level task of another priority and a subtask.
C9_Witness ==
  \E a \in TopLevel, b \in TopLevel, c \in Range(tasks) \ TopLevel :
    /\ heap[a].status = "completed"
    /\ heap[b].status = "pending"
    /\ heap[a].priority # heap[b].priority
    /\ listTasks(Reg, [NoFilters EXCEPT !.status = "completed"]) = <<a>>
    /\ listTasks(Reg, [NoFilters EXCEPT !.priority = heap[b].priority]) = <<b>>

\* the filters the ordering is checked for
FilterInputs ==
  [status : {Undefined, "all", "pending", "completed"}, category : {Undefined, "development"},
   priority : {Undefined}, limit : {NoLimit}]

\* no listed task precedes a task of higher priority, nor an equal-priority
\* task created later
Ordered(R, listed) ==
  \A i \in 1..Len(listed), j \in 1..Len(listed) :
    (i < j /\ R.heap[listed[i]].priority \in TaskPriority
           /\ R.heap[listed[j]].priority \in TaskPriority) =>
      /\ priorityOrder(R.heap[listed[i]].priority) <= priorityOrder(R.heap[listed[j]].priority)
      /\ R.heap[listed[i]].priority = R.heap[listed[j]].priority
           => R.heap[listed[i]].createdAt >= R.heap[listed[j]].createdAt

\* C10: the result of listTasks is ordered critical, high, medium, low and,
\* within a priority, newest first, for any filters.
C10_ListIsOrdered ==
  \A f \in FilterInputs : Ordered(Reg, listTasks(Reg, f))

----------------------------------------------------------------------------
\* Properties of the agent orchestrator

\* the thread of the session
SessionThread == threads[Sess.threadId]

\* a call of `op` has just ended
Ended(op) == pc = "idle" /\ ret.kind # "none" /\ ret.op = op

\* C2: when the run of a processMessage call completes, the call returns the
\* content of the last message of the thread, the assistant's reply.
C2_ReturnsLastMessage ==
  (Ended("processMessage") /\ ret.kind = "return"
     /\ ret.runEnd = "completed" /\ ret.failure = "none") =>
    /\ SessionThread[Len(SessionThread)].role = "assistant"
    /\ ret.text = <<SessionThread[Len(SessionThread)].content>>

\* C3: processMessage never raises; when a step of it fails it records exactly
\* one failure learning and returns the formatted error string.
C3_ProcessMessageNeverRaises ==
  Ended("processMessage") =>
    /\ ret.kind = "return"
    /\ ret.failure # "none" =>
         /\ ret.text[1] = "Fehler bei der Verarbeitung"
         /\ ret.learned = <<[taskId |-> ErrorTaskId, outcome |-> "failure"]>>

\* C4: the result of executeTask / runTask reports the outcome of the run:
\* success and status completed only when the run completed, otherwise
\* success = false, status failed and a failure learning for the task.
C4_ResultReportsRunOutcome ==
  ((Ended("executeTask") \/ Ended("runTask")) /\ ret.kind = "return"
     /\ ret.runEnd # "none") =>
    LET h == MapGet(Reg, ret.taskId)
    IN IF ret.runEnd = "completed" /\ ret.failure = "none"
       THEN ret.success /\ heap[h].status = "completed"
       ELSE /\ ~ret.success
            /\ heap[h].status = "failed"
            /\ \E i \in 1..Len(ret.learned) :
                 ret.learned[i] = [taskId |-> ret.taskId, outcome |-> "failure"]

\* C5: executeTask reports 'task not found' only for an identifier that no
\* task of the registry has.
C5_ExecutesRegistryTasks ==
  (Ended("executeTask") /\ ret.kind = "return" /\ ret.text = <<"Task nicht gefunden">>) =>
    ret.taskId \notin TaskIds(Reg)

----------------------------------------------------------------------------
\* Properties of listTasks with a result-count cap

\* the caps checked: 0 up to one more than the registry can hold
LimitInputs == 0..(MaxTasks + 1)

\* C11: with limit = n (n >= 0) the result of listTasks is the first n tasks
\* of the uncapped ordered result, so it has at most n tasks; also for n = 0.
C11_LimitCapsResult ==
  \A n \in LimitInputs :
    LET uncapped == listTasks(Reg, NoFilters)
        capped == listTasks(Reg, [NoFilters EXCEPT !.limit = <<n>>])
    IN /\ Len(capped) <= n
       /\ capped = SubSeq(uncapped, 1, Min(n, Len(uncapped)))

----------------------------------------------------------------------------
\* Properties of deleteTask

\* a step of deleteTask on the identifier of a registry task
IsDeleteStep ==
  /\ ops' = ops + 1
  /\ ret'.op = "deleteTask"
  /\ MapGet(Reg, ret'.taskId) # 0

\* C12: deleteTask(id) on an existing task removes exactly that task and the
\* tasks in its subtask list and returns true; every other task stays in the
\* registry, in its place and unchanged.
C12_DeleteRemovesTaskAndSubtasks ==
  [][IsDeleteStep =>
       LET h == MapGet(Reg, ret'.taskId)
           removed(k) == k = h \/ k \in Range(heap[h].subtasks)
           kept(k) == ~removed(k)
       IN /\ ret'.text = <<TRUE>>
          /\ tasks' = SelectSeq(tasks, kept)
          /\ heap' = heap]_vars

\* no two Task objects were given the same identifier
NoCollision == \A a \in 1..Len(heap), b \in 1..Len(heap) : heap[a].id = heap[b].id => a = b

\* C13: a registry task whose parent is in the registry is in that parent's
\* subtask list, and every member of a subtask list is a task of the registry
\* (stated for the registries in which every identifier was assigned once).
C13_SubtasksStoredTwice ==
  NoCollision =>
  /\ \A h \in Range(tasks) :
       LET p == IF heap[h].parentTaskId = NoId THEN 0
                ELSE MapGet(Reg, heap[h].parentTaskId)
       IN p # 0 => h \in Range(heap[p].subtasks)
  /\ \A h \in Range(tasks) : \A c \in Range(heap[h].subtasks) : c \in Range(tasks)

----------------------------------------------------------------------------
\* Properties of completeTask

\* C14: completeTask(id, result) on an existing task sets its status to
\* completed when result.success is true and to failed otherwise, stamps its
\* completion time and attaches the result, whatever the status before; no
\* other task is changed and the registry keeps its entries.
C14_CompleteSetsStatusStampAndResult ==
  [][\A id \in TaskIds(Reg) : \A result \in ResultInputs :
       (heap' = completeTask(Reg, id, result, now).heap /\ tasks' = tasks /\ ops' = ops + 1) =>
         LET h == MapGet(Reg, id)
         IN /\ heap'[h].status = IF result.success THEN "completed" ELSE "failed"
            /\ heap'[h].completedAt = now
            /\ heap'[h].result = <<result>>
            /\ Len(heap') = Len(heap)
            /\ \A k \in 1..Len(heap) : k # h => heap'[k] = heap[k]]_vars

\* C14 witness: a task that an updateTask call had raised to priority high was
\* completed afterwards with success = false: it is failed, stamped and carries
\* the result, next to a task that is still pending.
C14_Witness ==
  /\ ops = MaxUpdates + 1
  /\ \E a \in Range(tasks), b \in Range(tasks) :
       /\ heap[a].priority = "high" /\ heap[a].createdAt < now
       /\ heap[a].status = "failed"
       /\ heap[a].completedAt = now
       /\ heap[a].result = <<[success |-> FALSE, summary |-> "s"]>>
       /\ heap[b].status = "pending" /\ heap[b].result = <<>>

----------------------------------------------------------------------------
\* Properties of the task round trip

\* a Task object with everything nested in its subtask list, by value
RECURSIVE TaskValue(_, _)
TaskValue(R, h) ==
  [R.heap[h] EXCEPT !.subtasks = [i \in 1..Len(@) |-> TaskValue(R, @[i])]]

\* the task an exported text describes: every date text read back as a Date,
\* also in the nested subtasks
RECURSIVE Described(_)
Described(json) ==
  [json EXCEPT !.createdAt = NewDate(@),
               !.updatedAt = NewDate(@),
               !.completedAt = IF @ = NoDate THEN NoDate ELSE NewDate(@),
               !.subtasks = [i \in 1..Len(@) |-> Described(@[i])]]

\* a step that imports the text of the last export into the cleared registry
IsRoundTripStep ==
  /\ TaskTexts # {}
  /\ tasks = <<>>
  /\ ops' = ops + 1
  /\ ret'.op = "importTasks"
  /\ Reg' = importTasks(Reg, ret.text[1]).R

\* C15: importing the exported text into the cleared registry yields the
\* exported tasks, same identifiers in the same order and same field values,
\* with every date field a Date equal to the original, also in nested subtasks.
C15_TaskRoundTrip ==
  [][IsRoundTripStep =>
       LET items == ret.text[1].items
       IN /\ ret'.text = <<Len(items)>>
          /\ Len(tasks') = Len(items)
          /\ \A i \in 1..Len(items) :
               TaskValue(Reg', tasks'[i]) = Described(items[i][1])]_vars

----------------------------------------------------------------------------
\* Properties of the learning round trip

\* the entry an exported text describes: the timestamp text read back as a Date
DescribedEntry(json) == [json EXCEPT !.timestamp = NewDate(@)]

\* a step of exportLearnings
IsExportLearningsStep ==
  /\ ops' = ops + 1
  /\ UNCHANGED <<learnings, metrics>>
  /\ ret'.op = "exportLearnings"
  /\ ret'.text = <<exportLearnings(Learn)>>

\* a step that imports the text of the last export into the cleared registry
IsLearningRoundTripStep ==
  /\ LearningTexts # {}
  /\ learnings = <<>>
  /\ ops' = ops + 1
  /\ ret'.op = "importLearnings"
  /\ learnings' = importLearnings(Learn, ret.text[1]).L.learnings

\* one step of the round trip: the exported text describes the registry, and
\* its import into the cleared registry sets what the text describes
LearningRoundTripStep ==
  /\ IsExportLearningsStep =>
       LET items == ret'.text[1].items
       IN /\ Len(items) = Len(learnings)
          /\ \A i \in 1..Len(items) :
               /\ ~IsDate(items[i][1].timestamp)
               /\ DescribedEntry(items[i][1]) = learnings[i]
  /\ IsLearningRoundTripStep =>
       LET items == ret.text[1].items
       IN /\ ret'.text = <<Len(items)>>
          /\ Len(learnings') = Len(items)
          /\ \A i \in 1..Len(items) :
               /\ IsDate(learnings'[i].timestamp)
               /\ learnings'[i] = DescribedEntry(items[i][1])

\* C16: the exported text lists the entries of the registry, each with its
\* timestamp as text, and importing it into the cleared registry yields these
\* entries again, same identifiers, task ids, patterns, outcomes, feedback and
\* improvement, every timestamp a Date equal to the original; importLearnings
\* returns their number.
C16_LearningRoundTrip == [][LearningRoundTripStep]_vars

\* every timestamp of the registry is a valid Date
AllDated == \A i \in 1..Len(learnings) : learnings[i].timestamp >= 0

\* the round trip of a registry whose timestamps are all valid Dates is exact
DatedLearningRoundTrip == [][AllDated => LearningRoundTripStep]_vars

\* a registry with two entries recorded at different times, one with and one
\* without improvement, is back after export, clear and import, and
\* importLearnings returned 2
DatedRoundTripDone ==
  /\ ret.kind = "return" /\ ret.op = "importLearnings" /\ ret.text = <<2>>
  /\ ops = 3
  /\ Len(learnings) = 2
  /\ learnings[1].timestamp = 0 /\ learnings[2].timestamp = 1
  /\ learnings[1].improvement = Undefined /\ learnings[2].improvement = "i"

\* an entry recorded at time 1 whose timestamp was an invalid Date when the
\* registry was exported carries the epoch after the import of that text
EpochAfterRoundTrip ==
  /\ ret.kind = "return" /\ ret.op = "importLearnings" /\ ret.text = <<1>>
  /\ now = 1
  /\ Len(learnings) = 1
  /\ learnings[1].id = generateLearningId(1, 1)
  /\ learnings[1].timestamp = 0

----------------------------------------------------------------------------
\* Properties of the import of malformed texts

\* the registry by value: its tasks in Map order
TaskValues(R) == [i \in 1..Len(R.tasks) |-> TaskValue(R, R.tasks[i])]

\* a step of importTasks on a malformed text
IsMalformedTaskImport ==
  /\ ops' = ops + 1
  /\ ret'.op = "importTasks"
  /\ \E json \in MalformedTaskTexts : Reg' = importTasks(Reg, json).R

\* a step of importLearnings on a malformed text
IsMalformedLearningImport ==
  /\ ops' = ops + 1
  /\ ret'.op = "importLearnings"
  /\ \E json \in MalformedLearningTexts : Learn' = importLearnings(Learn, json).L

\* C17: importTasks and importLearnings on a malformed text (no JSON, a wrong
\* shape, a list with an invalid element at any position) do not raise,
\* return 0 and leave the registry and the metrics as they were.
C17_MalformedImportIsDiscarded ==
  [][/\ IsMalformedTaskImport =>
          /\ ret'.kind = "return" /\ ret'.text = <<0>>
          /\ TaskValues(Reg') = TaskValues(Reg)
     /\ IsMalformedLearningImport =>
          /\ ret'.kind = "return" /\ ret'.text = <<0>>
          /\ learnings' = learnings
          /\ metrics' = metrics]_vars

----------------------------------------------------------------------------
\* C18: every recordLearning call adds one to the total count; with outcome
\* success it adds one to the completed count and leaves the success rate above
\* zero; with outcome failure it adds one to the failed count and leaves the
\* completed count as it was; with outcome partial it changes neither the
\* completed nor the failed count.

\* the step is recordLearning(params)
IsRecordLearningStep(params) ==
  /\ ops' = ops
  /\ now' = now
  /\ \E rnd \in RandInputs :
       /\ learnings' = recordLearning(Learn, params, now, rnd).learnings
       /\ metrics' = recordLearning(Learn, params, now, rnd).metrics

C18_RecordLearningCounts ==
  [][\A params \in LearnParams :
       IsRecordLearningStep(params) =>
         /\ metrics'.totalTasks = metrics.totalTasks + 1
         /\ params.outcome = "success" =>
              /\ metrics'.completedTasks = metrics.completedTasks + 1
              /\ metrics'.successRate.num > 0
              /\ metrics'.successRate.den > 0
         /\ params.outcome = "failure" =>
              /\ metrics'.failedTasks = metrics.failedTasks + 1
              /\ metrics'.completedTasks = metrics.completedTasks
         /\ params.outcome = "partial" =>
              /\ metrics'.completedTasks = metrics.completedTasks
              /\ metrics'.failedTasks = metrics.failedTasks]_vars

\* a partial and a success have been recorded
C18_Witness ==
  /\ Len(learnings) = 2
  /\ learnings[1].outcome = "partial"
  /\ learnings[2].outcome = "success"
  /\ metrics.totalTasks = 2
  /\ metrics.completedTasks = 1
  /\ metrics.failedTasks = 0

----------------------------------------------------------------------------
\* C19: the aggregated improvement lists hold no string twice.
\* getImprovementSuggestions holds each distinct improvement string once, in the
\* order of first occurrence; the improvements of getLearningsSummary are the
\* last five strings of that list, so with more than five distinct strings the
\* earliest ones are absent from the summary.

\* the distinct improvement strings of the recorded entries
DistinctImprovements ==
  {learnings[i].improvement : i \in 1..Len(learnings)} \ {Undefined}

\* the first entry that carries the string
FirstOccurrence(d) ==
  CHOOSE i \in 1..Len(learnings) :
    /\ learnings[i].improvement = d
    /\ \A j \in 1..(i - 1) : learnings[j].improvement # d

\* the place of the string among the distinct strings, by first occurrence
Rank(d) ==
  Cardinality({e \in DistinctImprovements : FirstOccurrence(e) <= FirstOccurrence(d)})

\* the list holds each distinct string once, at the place of its first occurrence
HoldsEachOnce(list) ==
  /\ Len(list) = Cardinality(DistinctImprovements)
  /\ \A d \in DistinctImprovements : list[Rank(d)] = d

\* the list holds the last `n` distinct strings once each, in the same order
HoldsLastOnce(list, n) ==
  LET dropped == IF Cardinality(DistinctImprovements) > n
                 THEN Cardinality(DistinctImprovements) - n ELSE 0
  IN /\ Len(list) = Cardinality(DistinctImprovements) - dropped
     /\ \A d \in DistinctImprovements :
          Rank(d) > dropped => list[Rank(d) - dropped] = d

C19_ImprovementsOnceSummaryLastFive ==
  /\ HoldsEachOnce(getImprovementSuggestions(learnings))
  /\ HoldsLastOnce(getLearningsSummaryImprovements(learnings), 5)

\* C19 as stated: both lists hold each distinct string once, at the place of
\* its first occurrence
C19_ImprovementsOnceEverywhere ==
  /\ HoldsEachOnce(getImprovementSuggestions(learnings))
  /\ HoldsEachOnce(getLearningsSummaryImprovements(learnings))

\* seven entries: two share the first string, six strings are distinct
C19_Witness ==
  /\ Len(learnings) = 7
  /\ learnings[1].improvement = learnings[2].improvement
  /\ Cardinality(DistinctImprovements) = 6

----------------------------------------------------------------------------
\* C20: findSimilarLearnings(query, limit) returns only entries whose pattern
\* text contains at least one word of the query, in the order of non-increasing
\* number of matching query words, and at most limit entries, for every query
\* (the empty query included) and every limit >= 0.

\* the words of the query: the longest stretches without white space, each
\* given by its first and last character
QueryWords(query) ==
  {w \in (1..Len(query)) \X (1..Len(query)) :
     /\ w[1] <= w[2]
     /\ \A i \in w[1]..w[2] : query[i] # " "
     /\ w[1] = 1 \/ query[w[1] - 1] = " "
     /\ w[2] = Len(query) \/ query[w[2] + 1] = " "}

\* the number of query words the entry's pattern contains, whatever the case
Matching(entry, query) ==
  Cardinality({w \in QueryWords(query) :
                 Includes(toLowerCase(entry.pattern),
                          toLowerCase(SubSeq(query, w[1], w[2])))})

C20_SimilarOnlyMatchingRankedCapped ==
  \A query \in QueryInputs, limit \in SimilarLimits :
    LET found == findSimilarLearnings(learnings, query, limit)
    IN /\ \A i \in 1..Len(found) : Matching(found[i], query) > 0
       /\ \A i \in 1..(Len(found) - 1) :
            Matching(found[i], query) >= Matching(found[i + 1], query)
       /\ Len(found) <= limit

----------------------------------------------------------------------------
\* C21: waitForRunCompletion returns the run only when a poll observes status
\* completed; a poll that observes failed, cancelled or expired makes it raise
\* the matching error (for failed with the service's error message); when the
\* timeout has elapsed at the loop condition it raises the timeout error.  It
\* never returns for a run that was not observed completed.

\* the step ends the waitForRunCompletion call
WaitEnding ==
  /\ pc \in WaitPositions
  /\ pc' = "idle"

\* the step is a poll that resolves, observing the run as the service holds it
PollResolves ==
  /\ pc = "retrieve"
  /\ pc' # "retrieve"
  /\ ~(pc' = "idle" /\ ret'.failure = "retrieve")

C21_ReturnsOnlyCompletedRuns ==
  [][/\ (WaitEnding /\ ret'.kind = "return") =>
          /\ PollResolves
          /\ run.status = "completed"
          /\ ret'.text = <<"run", "completed">>
     /\ (PollResolves /\ run.status = "failed") =>
          /\ WaitEnding
          /\ ret'.kind = "raise"
          /\ ret'.text[1] = "Run failed"
          /\ run.error # Undefined => ret'.text[2] = run.error
     /\ (PollResolves /\ run.status = "cancelled") =>
          /\ WaitEnding
          /\ ret'.kind = "raise"
          /\ ret'.text = <<"Run was cancelled">>
     /\ (PollResolves /\ run.status = "expired") =>
          /\ WaitEnding
          /\ ret'.kind = "raise"
          /\ ret'.text = <<"Run expired">>
     /\ (pc = "while" /\ pc' # "while" /\ now - call.startTime >= timeoutMs) =>
          /\ WaitEnding
          /\ ret'.kind = "raise"
          /\ ret'.text = <<"Run timed out">>]_vars

----------------------------------------------------------------------------
\* C22: each time a poll observes the run requiring tool calls and a handler
\* is supplied, the handler is invoked with the requested calls, then one
\* output per requested call identifier is submitted, the output for an
\* identifier being the string the handler returned for it, and polling
\* resumes only after the submission.

\* the step delivers a tool-output submission to the service
SubmissionArrives ==
  /\ pc = "submitToolOutputs"
  /\ Len(run'.outputs) = Len(run.outputs) + 1

C22_SubmitsHandlerOutputs ==
  [][/\ (/\ PollResolves
         /\ run.status = "requires_action"
         /\ HandlesToolCalls(run, call.onToolCall)) =>
          /\ pc' = "onToolCall"
          /\ call'.seen.batch = run.batch
     /\ SubmissionArrives =>
          LET submitted == run'.outputs[Len(run'.outputs)]
          IN /\ Len(submitted) = Len(call.seen.batch)
             /\ \A i \in 1..Len(submitted) :
                  /\ submitted[i].tool_call_id = call.seen.batch[i]
                  /\ call.results[call.seen.batch[i]] # Undefined =>
                       submitted[i].output = call.results[call.seen.batch[i]]
     /\ (pc \in WaitPositions /\ pc' = "retrieve") =>
          Len(run.outputs) = call.handled]_vars

----------------------------------------------------------------------------
\* C23: every invocation of waitForRunCompletion eventually ends, whatever
\* statuses the remote service reports, provided each remote call and each
\* handler call comes back and time advances; a call that no poll and no
\* failing await has ended ends in the timeout error.

C23_WaitEventuallyEnds ==
  /\ (pc \in WaitPositions) ~> (pc = "idle")
  /\ [](/\ ret.op = "waitForRunCompletion"
         /\ ret.failure = "none"
         /\ ret.runEnd \notin TerminalStatuses
         => /\ ret.kind = "raise"
            /\ ret.text = <<"Run timed out">>)

\* a call has ended in the timeout error after the run stayed queued
C23_Witness ==
  /\ ret.op = "waitForRunCompletion"
  /\ ret.kind = "raise"
  /\ ret.text = <<"Run timed out">>
  /\ run.status = "queued"
  /\ now >= timeoutMs

----------------------------------------------------------------------------
\* C24: once waitForRunCompletion has started, polling stops only because the
\* timeout elapsed or because a poll received a terminal status (completed,
\* failed, cancelled, expired); a failing poll request, a failing tool handler
\* or a failing tool-output submission does not end it.

C24_OnlyTimeoutOrTerminalStatusStops ==
  [][WaitEnding =>
       \/ pc = "while" /\ now - call.startTime >= timeoutMs
       \/ PollResolves /\ run.status \in TerminalStatuses]_vars

----------------------------------------------------------------------------
\* C25: nothing is retried.  Within one processMessage call the user message
\* is appended at most once and at most one run is started, and once the run
\* has ended failed, cancelled, expired or timed out the call ends: no further
\* run is started and no further poll is made for it.

\* the user messages the remote threads hold
UserMessagesSent ==
  Cardinality({<<t, i>> \in (1..Len(threads)) \X (1..(2 * MaxCalls + 2)) :
                 /\ i <= Len(threads[t])
                 /\ threads[t][i].role = "user"})

\* the runs started on the session
RunsStarted == IF activeSession = NoSession THEN 0 ELSE Sess.runId

C25_NothingIsRetried ==
  /\ [](UserMessagesSent <= calls /\ RunsStarted <= calls)
  /\ [][/\ UserMessagesSent' # UserMessagesSent =>
             pc = "addMessage" /\ pc' = "runAssistant"
        /\ RunsStarted' # RunsStarted =>
             pc = "runAssistant" /\ pc' = "poll"
        /\ pc' = "addMessage" => pc \in {"getSession", "addMessage"}
        /\ pc' = "runAssistant" => pc \in {"addMessage", "runAssistant"}
        /\ (/\ pc \in {"poll", "setTimeout"}
            /\ pc' \in {"idle", "afterProcessMessage"}
            /\ (IF pc' = "idle" THEN ret'.runEnd ELSE call'.inner[1].runEnd)
                  \in {"failed", "cancelled", "expired", "timeout"}) =>
             /\ run' = NoRun
             /\ RunsStarted' = RunsStarted
             /\ threads' = threads
        /\ (pc = "idle" /\ pc' = "idle") =>
             /\ run' = run
             /\ threads' = threads
             /\ RunsStarted' = RunsStarted]_vars

\* a processMessage call whose run failed has ended: one message, one run
C25_Witness ==
  /\ pc = "idle"
  /\ ret.op = "processMessage"
  /\ ret.runEnd = "failed"
  /\ UserMessagesSent = 1
  /\ RunsStarted = 1

----------------------------------------------------------------------------
\* C26: the session is created lazily and once.  When getSession,
\* processMessage, executeTask and runTask calls run one after another (no
\* endSession in between), exactly one remote thread is created, by the first
\* call, and every call uses the same session and thread identifier.

\* the calls that have got a session
WithSession == {i \in 1..Len(procs) : procs[i].at = "done" /\ procs[i].threadId # 0}

\* the calls that have ended
CallsEnded == {i \in 1..Len(procs) : procs[i].at = "done"}

\* the calls that have got a session, while or after they continue with it
HasSession == {i \in 1..Len(procs) : procs[i].threadId # 0}

\* the calls whose own createThread made the thread of their session
Creators == {i \in 1..Len(procs) : procs[i].created}

\* every call is one of getSession, processMessage, executeTask and runTask
OnlySessionCallers == \A i \in 1..Len(procs) : procs[i].op \in SessionCallers

\* no call has run while another did
OneAfterAnother == \A i \in 1..Len(procs) : ~procs[i].concurrent

\* C26 as stated: once the first call has ended, exactly one thread exists,
\* the first call has created it, and every ended call has the session of it
C26_OneThreadByFirstCall ==
  (OnlySessionCallers /\ OneAfterAnother /\ CallsEnded # {}) =>
    /\ Len(threads) = 1
    /\ Creators = {1}
    /\ activeSession # NoSession
    /\ \A i \in CallsEnded : procs[i].threadId = Sess.threadId

\* C26, amended: at most one remote thread is created, by the first call
\* whose thread creation succeeds; a call whose thread creation fails (no
\* credential, or the request is rejected) ends with no session and leaves
\* none; every call that gets a session gets the session of that one thread.
C26_OneSessionInSequence ==
  (OnlySessionCallers /\ OneAfterAnother) =>
    /\ Len(threads) = Cardinality(Creators)
    /\ Cardinality(Creators) <= 1
    /\ apiKey = "" => threads = <<>>
    /\ HasSession = {} => activeSession = NoSession
    /\ HasSession # {} =>
         /\ activeSession # NoSession
         /\ Len(threads) = 1
         /\ \A i \in HasSession :
              /\ procs[i].threadId = Sess.threadId
              /\ procs[i].created <=> \A k \in HasSession : i <= k

\* the thread creation of the first call was rejected, the second call has
\* created the thread, and the third, a runTask, has got the same session
C26_Witness ==
  /\ Len(procs) = 3
  /\ OneAfterAnother
  /\ CallsEnded = {1, 2, 3}
  /\ procs[1].op = "getSession"
  /\ procs[1].threadId = 0
  /\ procs[2].op = "processMessage"
  /\ procs[2].created
  /\ procs[3].op = "runTask"
  /\ ~procs[3].created
  /\ procs[3].threadId = procs[2].threadId
  /\ Len(threads) = 1
  /\ Sess.tasks = <<procs[3].handle>>
  /\ heap[procs[3].handle].status = "in-progress"

----------------------------------------------------------------------------
\* C27: one session also under interleaving.  When calls overlap at their
\* await points while no session exists yet, only one remote thread is
\* created and the calls end up using the same session: no thread is created
\* and then left without the module's session pointing to it.

C27_OneSessionUnderOverlap ==
  OnlySessionCallers =>
    /\ Len(threads) <= 1
    /\ \A i \in WithSession : procs[i].threadId = Sess.threadId

----------------------------------------------------------------------------
\* C28: every tool name advertised in AGENT_TOOLS is dispatched by
\* handleToolCalls to its own handler, never to the default branch for unknown
\* tools, and a task_complete call leaves the named task completed.

\* the state after handleToolCalls has dispatched the one call
Dispatched(tc) ==
  DispatchOne(ToolState(Reg, IF activeSession = NoSession THEN <<>> ELSE Sess.tasks, Learn),
              [id |-> 1, name |-> tc.name, valid |-> tc.valid, args |-> tc.args],
              now, 1)

C28_AdvertisedToolsAreDispatched ==
  /\ \A name \in AGENT_TOOLS : \E tc \in AdvertisedCalls : tc.name = name
  /\ \A tc \in AdvertisedCalls :
       /\ Dispatched(tc).results # <<>>
       /\ Dispatched(tc).results[1] # <<1, "Tool nicht implementiert">>
       /\ (tc.name = "task_complete" /\ tc.args.taskId \in TaskIds(Reg)) =>
            Dispatched(tc).R.heap[MapGet(Dispatched(tc).R, tc.args.taskId)].status
              = "completed"

----------------------------------------------------------------------------
\* C29: with no API credential configured, constructing the remote client
\* fails: every client function (createThread, addMessage, runAssistant,
\* waitForRunCompletion, getThreadMessages, deleteThread) raises the
\* configuration error before any remote request is issued, and the failed
\* attempt caches no client.

\* the functions of the remote client
ClientFunctions ==
  {"createThread", "addMessage", "runAssistant", "waitForRunCompletion",
   "getThreadMessages", "deleteThread"}

C29_NoCredentialNoClient ==
  /\ [](apiKey = "" => /\ openaiClient = "null"
                       /\ requests = {}
                       /\ threads = <<>>
                       /\ run = NoRun)
  /\ [][(apiKey = "" /\ ops' # ops) =>
          /\ procs' = <<>>
          /\ pc' = "idle"
          /\ ret'.kind = "raise"
          /\ ret'.text = <<"OPENAI_API_KEY is not configured">>
          /\ UNCHANGED <<openaiClient, requests, threads, run>>]_vars
  /\ \A op \in ClientFunctions :
       apiKey = "" => ENABLED (NextClient /\ ret'.op = op)

\* without a credential, deleteThread has failed after three other failed calls
C29_Witness ==
  /\ apiKey = ""
  /\ ops = MaxRequests
  /\ ret.op = "deleteThread"
  /\ ret.kind = "raise"
  /\ openaiClient = "null"

----------------------------------------------------------------------------
\* C30: a registry call on an identifier the registry does not hold changes
\* nothing: updateTask, setTaskStatus, addTaskContext and completeTask return
\* undefined, deleteTask returns false, and the registry is the same
\* afterwards.

\* the call of this step was made with an identifier absent from the registry
UnknownIdCall == ops' # ops /\ ret'.taskId \notin TaskIds(Reg)

C30_UnknownIdChangesNothing ==
  [][UnknownIdCall =>
       /\ UNCHANGED <<heap, tasks>>
       /\ ret'.kind = "return"
       /\ ret'.op \in {"updateTask", "setTaskStatus", "addTaskContext", "completeTask",
                        "deleteTask"}
       /\ ret'.op = "deleteTask" => ret'.success = FALSE
       /\ ret'.op # "deleteTask" => ret'.text = <<>>]_vars

\* addTaskContext has been called with the identifier of a task deleted before
C30_Witness ==
  /\ ops = MaxRegistryCalls
  /\ ret.op = "addTaskContext"
  /\ ret.taskId # GhostId
  /\ ret.taskId \notin TaskIds(Reg)
  /\ tasks # <<>>

----------------------------------------------------------------------------
\* C31: a failure while handling one tool call of a batch is confined to that
\* call.  handleToolCalls returns an output string for every call identifier
\* of the batch, the failing call's output being an error text, and the
\* remaining calls are still dispatched, also when a call's arguments text is
\* not valid JSON.

\* the calls whose handling can fail: arguments that do not parse, and a
\* task_list whose formatting throws
FailingCalls == {tc \in ToolCallInputs : ~tc.valid \/ tc.name = "task_list"}

\* batches of two calls, one of which can fail
FailingBatches ==
  {<<a, b>> : a \in FailingCalls, b \in ToolCallInputs}
  \cup {<<a, b>> : a \in ToolCallInputs, b \in FailingCalls}

\* what handleToolCalls makes of the batch in the current state
Handled(batch) ==
  handleToolCalls(ToolState(Reg, IF activeSession = NoSession THEN <<>> ELSE Sess.tasks,
                            Learn),
                  WithIds(batch), now, [i \in 1..Len(batch) |-> 1])

C31_FailureConfinedToCall ==
  \A batch \in FailingBatches :
    /\ ~Handled(batch).raised
    /\ Len(Handled(batch).results) = Len(batch)
    /\ \A i \in 1..Len(batch) :
         /\ Handled(batch).results[i][1] = i
         /\ ~batch[i].valid => Handled(batch).results[i][2] = "Fehler"

----------------------------------------------------------------------------
\* C32: the session status is never left at processing.  Whenever a
\* processMessage call has ended (returned or raised), the session status is
\* active if a run completed and error if the call failed; a later
\* processMessage call is accepted and can bring an error session back to
\* active.

\* the processMessage call that ended last raised or returned the error string
CallFailed == ret.kind = "raise" \/ ret.failure # "none"

C32_StatusSettledWhenCallEnds ==
  (pc = "idle" /\ ret.op = "processMessage" /\ activeSession # NoSession) =>
    /\ Sess.status # "processing"
    /\ CallFailed => Sess.status = "error"
    /\ ~CallFailed => ret.runEnd = "completed" /\ Sess.status = "active"

----------------------------------------------------------------------------
\* C33: the average completion time is always a finite, non-negative number.
\* recordCompletionTime is only applied when the completed count is at least
\* 1, so the running average never divides by zero, in any sequence of
\* processMessage, executeTask and recordLearning calls from the initial
\* metrics.

C33_AverageCompletionTimeFinite ==
  metrics.averageCompletionTime = "finite"

----------------------------------------------------------------------------
\* C34: the metrics stay consistent with the learning registry.  After any
\* sequence of recordLearning and clearLearnings calls, metrics.totalTasks
\* equals the number of stored learning entries, completedTasks the number
\* with outcome success and failedTasks the number with outcome failure, so
\* the metrics and getLearningsSummary report the same counts.

C34_MetricsMatchRegistry ==
  /\ metrics.totalTasks = getLearningsSummary(learnings).total
  /\ metrics.completedTasks = getLearningsSummary(learnings).successful
  /\ metrics.failedTasks = getLearningsSummary(learnings).failed

----------------------------------------------------------------------------
\* C35: endSession always leaves no active session and never raises, also
\* when deleting the remote thread fails; the next getSession or
\* processMessage then creates a fresh session with a new thread, and
\* endSession with no active session makes no remote call.

\* an endSession call ends with this step
EndSessionEnds ==
  \/ pc = "deleteThread" /\ pc' = "idle"
  \/ ops' # ops /\ pc' = "idle"

\* a session is created with this step
SessionCreated == activeSession = NoSession /\ activeSession' # NoSession

C35_EndSessionLeavesNoSession ==
  [][/\ EndSessionEnds =>
          /\ activeSession' = NoSession
          /\ ret'.op = "endSession"
          /\ ret'.kind = "return"
     /\ (EndSessionEnds /\ activeSession = NoSession) =>
          UNCHANGED <<requests, threads, openaiClient>>
     /\ SessionCreated =>
          /\ activeSession'[1] = NewSession(Len(threads) + 1)
          /\ threads' = Append(threads, <<>>)
          /\ \A request \in requests : request[2] # activeSession'[1].threadId]_vars

\* after an endSession whose deleteThread failed, processMessage has run on a
\* fresh session with the second thread, and a later endSession found none
C35_Witness ==
  /\ pc = "idle"
  /\ requests = {<<"deleteThread", 1>>, <<"deleteThread", 2>>}
  /\ Len(threads) = 2
  /\ threads[2] # <<>>
  /\ activeSession = NoSession
  /\ ret.op = "endSession"
  /\ ret.failure = "deleteThread"

----------------------------------------------------------------------------
\* C36: getPendingReadyTasks returns exactly the pending top-level tasks each
\* of whose dependencies is a task present in the registry with status
\* completed (tasks without dependencies included); a task depending on a
\* task that is pending, in-progress, failed, cancelled or no longer in the
\* registry is never returned.

\* the registry holds a completed task under the identifier
CompletedInRegistry(depId) ==
  \E k \in Range(tasks) : heap[k].id = depId /\ heap[k].status = "completed"

\* the pending top-level tasks of the registry whose dependencies are all completed
ReadyTasks ==
  {h \in Range(tasks) :
     /\ heap[h].status = "pending"
     /\ heap[h].parentTaskId = NoId
     /\ \A depId \in Range(heap[h].dependencies) : CompletedInRegistry(depId)}

C36_ReadyTasksAreThePendingOnesWithCompletedDependencies ==
  /\ Range(getPendingReadyTasks(Reg)) = ReadyTasks
  /\ Len(getPendingReadyTasks(Reg)) = Cardinality(ReadyTasks)

\* of three pending tasks the first was completed: the second, which depends
\* on it, is returned with no other, and the third, which depends on the
\* second, is not
C36_Witness ==
  /\ Len(tasks) = 3
  /\ heap[tasks[1]].status = "completed"
  /\ heap[tasks[2]].dependencies = <<heap[tasks[1]].id>>
  /\ heap[tasks[3]].dependencies = <<heap[tasks[2]].id>>
  /\ heap[tasks[2]].id # heap[tasks[1]].id
  /\ getPendingReadyTasks(Reg) = <<tasks[2]>>

----------------------------------------------------------------------------
\* C37: when a poll observes the run in the tool-call-required state and no
\* handler was supplied (or the required action is not a tool-output
\* submission), waitForRunCompletion submits nothing and keeps polling; if
\* the run stays in that state, the call ends with the timeout error.

\* the run requires an action that the running call does not handle
Unhandled ==
  /\ pc \in WaitPositions
  /\ run.status = "requires_action"
  /\ ~HandlesToolCalls(run, call.onToolCall)

\* the call has ended with the timeout error
TimedOut ==
  /\ pc = "idle"
  /\ ret.op = "waitForRunCompletion"
  /\ ret.kind = "raise"
  /\ ret.text = <<"Run timed out">>

C37_UnhandledActionTimesOut ==
  /\ [][(PollResolves /\ Unhandled) =>
          /\ pc' = "setTimeout"
          /\ call'.handled = call.handled
          /\ UNCHANGED <<run, requests>>]_vars
  /\ Unhandled ~> (run.status # "requires_action" \/ TimedOut)

----------------------------------------------------------------------------
\* C38: in every reachable state a task has a completion time if and only if
\* its status is completed or failed, after any sequence of createTask,
\* updateTask, setTaskStatus and completeTask (including setting a task to
\* failed through updateTask and re-opening a completed task).

C38_CompletionTimeIffCompletedOrFailed ==
  \A h \in Range(tasks) :
    heap[h].completedAt # NoDate <=> heap[h].status \in {"completed", "failed"}

====
